---- MODULE Spec2Model ----
(***************************************************************************)
(* Daemon wallet security core: the daemon lifecycle state machine         *)
(* (DaemonStateManager), the request validation pipeline                   *)
(* (ValidationPipeline) and the orchestrator (EnhancedDaemonService) that  *)
(* wires the IPC and native-messaging transports to them.                  *)
(*                                                                         *)
(* Abstractions: Date.now() timestamps stored in metadata and history      *)
(* entries are not modelled; error objects are represented by the fact     *)
(* that one was passed; console output is omitted.  A response is recorded *)
(* when a handler passes it to its transport (NativeMessaging.sendMessage  *)
(* drops it when stdin has ended).  Time passes in SpecVP and SpecRL; Spec *)
(* keeps Date.now() fixed, so the requests of one of its behaviours fall   *)
(* within a single rate-limit window.                                      *)
(***************************************************************************)
EXTENDS Integers, Sequences, FiniteSets, TLC

VARIABLES
  stateManager,      \* the DaemonStateManager object (its fields)
  smCall,            \* observation: the last call made on the state manager and its result
  consecErrors,      \* observation: handleError calls since the last successful non-ERROR transition
  keystore,          \* the Keystore object behind EnhancedKeystore (its fields)
  permissionManager, \* the pipeline's permissionManager: NoPermissionManager or its grants
  rateLimiter,       \* ValidationPipeline.rateLimiter: key -> timestamps
  now,               \* Date.now()
  alphabet,          \* the request shapes the environment sends in this behaviour
  cap,               \* bound on the requests of one key the environment gets accepted
  accepted,          \* observation: per key, the times at which the rate-limit check passed
  lastValidation,    \* observation: the last validate() call, its context and outcome
  phase,             \* how far EnhancedDaemonService.start() has come; "exited" after process.exit
  sessionManager,    \* the SessionManager object (its fields)
  watcher,           \* EnhancedKeystore.isWatching and lastModified
  disk,              \* the keystore directory: latest mtime of its .json files and their content
  native,            \* the native-messaging transport: "off", "open" or "ended"
  pending,           \* the handlers suspended at an await (approval prompt, key derivation)
  lastResponse,      \* the last response a handler passed to its transport
  nextId,            \* the number of messages received so far; message ids are 1..nextId
  signCalls,         \* observation: the number of Keystore.signMessage/signTransaction calls
  lastApproval,      \* observation: the last approval prompt that returned, and what followed
  frames,            \* the frames the native-messaging peer writes in this behaviour
  wire,              \* the bytes of those frames that have not reached process.stdin yet
  stdin,             \* process.stdin: its internal buffer and whether it has ended
  emitted,           \* observation: the events NativeMessaging has emitted, in order
  ipcClient,         \* the IPCClient object (its fields)
  ipcNet,            \* the client's sockets, its armed send timers, whether its process runs
  calls,             \* observation: the IPCClient.send calls made, and how each was settled
  timedSession,      \* a SessionManager with auto-lock enabled, and the timers it has pending
  vault,             \* a Keystore used directly: its fields, its file, and the last call made on it
  cipherRun          \* one use of CryptoUtils: the inputs, the encrypted record, the decryption tried

smVars == <<stateManager, smCall, consecErrors>>

vpVars == <<keystore, permissionManager, rateLimiter, now, alphabet, cap,
            accepted, lastValidation>>

daemonVars == <<phase, sessionManager, watcher, disk, native, pending,
                lastResponse, nextId, signCalls, lastApproval>>

vars == <<stateManager, smCall, consecErrors, keystore, permissionManager,
          rateLimiter, now, alphabet, cap, accepted, lastValidation,
          phase, sessionManager, watcher, disk, native, pending,
          lastResponse, nextId, signCalls, lastApproval,
          frames, wire, stdin, emitted, ipcClient, ipcNet, calls, timedSession,
          vault, cipherRun>>

coreVars == <<smVars, vpVars, daemonVars>>

nmVars == <<frames, wire, stdin, emitted>>

ipcVars == <<ipcClient, ipcNet, calls>>

sessVars == <<timedSession>>

vaultVars == <<vault>>

cryptoVars == <<cipherRun>>

extVars == <<nmVars, ipcVars, sessVars, vaultVars, cryptoVars>>

\* NativeMessaging as constructed, nothing on stdin.
NMIdle ==
  /\ frames = << >>
  /\ wire = << >>
  /\ stdin = [buffer |-> << >>, ended |-> FALSE]
  /\ emitted = << >>

\* IPCClient as constructed, no socket created.
IPCIdle ==
  /\ ipcClient = [socket |-> 0, connected |-> FALSE, pendingResponses |-> {}]
  /\ ipcNet = [created |-> 0, connecting |-> {}, established |-> {}, open |-> {},
               timers |-> {}, delivered |-> 0, lastData |-> 0, crashed |-> FALSE]
  /\ calls = << >>

\* The components around the daemon's core objects, before anything happens.
\* A SessionManager constructed with the default timeout, no timer created.
SessIdle ==
  timedSession = [ isUnlocked |-> FALSE, accounts |-> {},
                   activeSessions |-> 0,
                   unlockTimer |-> 0, unlockTimeout |-> 900000,
                   pending |-> {}, created |-> 0 ]

\* A Keystore as constructed, an empty keystore directory, nothing called yet.
VaultIdle ==
  vault = [ isLocked      |-> TRUE,
            wallets       |-> << >>,
            walletData    |-> [absent |-> TRUE],
            encryptedData |-> [absent |-> TRUE],
            keystorePath  |-> 0,
            dir           |-> {},
            written       |-> 0,
            faults        |-> 0,
            generated     |-> 0,
            lastCall      |-> [ op |-> "constructor", password |-> "",
                                address |-> [wallet |-> 0, index |-> 0, form |-> "none"],
                                result |-> "ok" ] ]

\* CryptoUtils not called.
CryptoIdle == cipherRun = [stage |-> "idle"]

ExtIdle == NMIdle /\ IPCIdle /\ SessIdle /\ VaultIdle /\ CryptoIdle

----------------------------------------------------------------------------
(* DaemonStateManager                                                      *)

STARTING == "starting"
READY == "ready"
LOCKED == "locked"
UNLOCKED == "unlocked"
ERROR == "error"

DAEMON_STATES == {STARTING, READY, LOCKED, UNLOCKED, ERROR}

\* previousState before the first transition
NoState == "null"

maxErrors == 5

HistoryLimit == 10

\* Bound on the consecutive handleError calls the environment makes.
MaxConsecErrors == 6

\* The metadata objects callers pass to transition(); kind names the caller's
\* literal, circuitBreakerTripped is the flag handleError may set.
Metadata(kind, tripped) == [kind |-> kind, circuitBreakerTripped |-> tripped]

EmptyMetadata == Metadata("empty", FALSE)

DefaultMetadata == Metadata("default", FALSE)

DaemonStateManagerNew ==
  [ currentState  |-> STARTING,
    previousState |-> NoState,
    stateHistory  |-> << >>,
    errorCount    |-> 0,
    metadata      |-> EmptyMetadata ]

validTransitions ==
  [ s \in DAEMON_STATES |->
      CASE s = STARTING -> {READY, ERROR}
        [] s = READY    -> {LOCKED, ERROR}
        [] s = LOCKED   -> {UNLOCKED, ERROR, READY}
        [] s = UNLOCKED -> {LOCKED, ERROR, READY}
        [] s = ERROR    -> {STARTING, READY} ]

\* A plausible slip: the self-transition is treated as a no-op success.
canTransitionTo_SelfAllowed(sm, newState) ==
  newState \in validTransitions[sm.currentState] \/ newState = sm.currentState

canTransitionTo(sm, newState) ==
  newState \in validTransitions[sm.currentState]

\* A plausible slip: the history is appended to and never trimmed.
transition_NoShift(sm, newState, metadata) ==
  IF ~canTransitionTo(sm, newState)
  THEN [sm |-> sm, ok |-> FALSE]
  ELSE [ sm |-> [ currentState  |-> newState,
                  previousState |-> sm.currentState,
                  stateHistory  |-> Append(sm.stateHistory,
                                           [from |-> sm.currentState, to |-> newState]),
                  errorCount    |-> IF newState = ERROR THEN sm.errorCount + 1 ELSE 0,
                  metadata      |-> metadata ],
         ok |-> TRUE ]

\* transition(newState, metadata): the object after the call and the value returned.
transition(sm, newState, metadata) ==
  IF ~canTransitionTo(sm, newState)
  THEN [sm |-> sm, ok |-> FALSE]
  ELSE
    LET pushed   == Append(sm.stateHistory,
                           [from |-> sm.currentState, to |-> newState])
        history  == IF Len(pushed) > HistoryLimit THEN Tail(pushed) ELSE pushed
        reset    == IF newState # ERROR THEN 0 ELSE sm.errorCount
        counted  == IF newState = ERROR THEN reset + 1 ELSE reset
    IN [ sm |-> [ currentState  |-> newState,
                  previousState |-> sm.currentState,
                  stateHistory  |-> history,
                  errorCount    |-> counted,
                  metadata      |-> metadata ],
         ok |-> TRUE ]

\* handleError(error, context): the object after the call.
handleError(sm) ==
  IF sm.errorCount >= maxErrors
  THEN transition(sm, ERROR, Metadata("error", TRUE)).sm
  ELSE transition(sm, ERROR, Metadata("error", FALSE)).sm

----------------------------------------------------------------------------
(* Keystore (the part the pipeline and the orchestrator read)              *)

NoData == "null"

KeystoreNew ==
  [ encryptedData |-> NoData,
    isLocked      |-> TRUE,
    wallets       |-> {} ]

hasKeystore(ks) == ks.encryptedData # NoData

\* Contents of a keystore file: one written by the wallet, or JSON that is
\* not a wallet's (unlock throws on it before deriving a key).
WalletFile == "file"
MalformedFile == "malformed"

\* The accounts in a wallet file.
WalletAccounts == {"0xa"}

\* The keystore directory: mtime 0 and no content when it holds no .json file;
\* clock is the latest modification time any file of the directory ever had.
EmptyDisk == [mtime |-> 0, content |-> NoData, clock |-> 0]

\* The directory holds no .json file.
NoFiles(dsk) == dsk.content = NoData

\* load(): reads the first .json file if there is one; never clears
\* encryptedData and never touches isLocked.
Keystore_load(ks, dsk) ==
  IF dsk.content # NoData THEN [ks EXCEPT !.encryptedData = dsk.content] ELSE ks

\* lock()
Keystore_lock(ks) == [ks EXCEPT !.wallets = {}, !.isLocked = TRUE]

\* getAccounts()
getAccounts(ks) == IF ks.isLocked THEN {} ELSE ks.wallets

\* unlock(password) up to its await: "throws" or "derive" (key derivation started).
Keystore_unlockBegin(ks) ==
  IF ks.encryptedData \in {NoData, MalformedFile} THEN "throws" ELSE "derive"

\* unlock(password) after key derivation: the object and the value returned.
Keystore_unlockEnd(ks, password) ==
  IF password = "good"
  THEN [keystore |-> [ks EXCEPT !.wallets = WalletAccounts, !.isLocked = FALSE],
        result |-> TRUE]
  ELSE [keystore |-> ks, result |-> FALSE]

\* A plausible slip: the signer looks the address up among the accounts of the
\* keystore file and never tests isLocked.
Keystore_sign_Unguarded(ks, address) ==
  IF address \notin WalletAccounts THEN "not_found" ELSE "signed"

\* signMessage / signTransaction: "signed", or the error thrown.
Keystore_sign(ks, address) ==
  IF ks.isLocked THEN "locked"
  ELSE IF address \notin ks.wallets THEN "not_found"
  ELSE "signed"

----------------------------------------------------------------------------
(* SessionManager                                                          *)

SessionManagerNew ==
  [ isUnlocked     |-> FALSE,
    accounts       |-> {},
    activeSessions |-> 0,
    unlockTimer    |-> FALSE ]

\* unlock(accounts): resetUnlockTimer() arms the timer.
SessionManager_unlock(sn, accounts) ==
  [sn EXCEPT !.isUnlocked = TRUE, !.accounts = accounts, !.unlockTimer = TRUE]

\* lock(): also what the timer's callback runs.
SessionManager_lock(sn) ==
  [sn EXCEPT !.isUnlocked = FALSE, !.accounts = {}, !.unlockTimer = FALSE]

addSession(sn) ==
  [sn EXCEPT !.activeSessions = @ + 1, !.unlockTimer = TRUE]

removeSession(sn) ==
  LET n == IF sn.activeSessions > 0 THEN sn.activeSessions - 1
           ELSE sn.activeSessions
  IN [sn EXCEPT !.activeSessions = n,
                !.unlockTimer = IF n = 0 THEN TRUE ELSE @]

destroy(sn) == [sn EXCEPT !.unlockTimer = FALSE]

----------------------------------------------------------------------------
(* ValidationPipeline                                                      *)

DAEMON_NOT_READY == "daemon_not_ready"
WALLET_LOCKED == "wallet_locked"
NO_KEYSTORE == "no_keystore"
PERMISSION_DENIED == "permission_denied"
INVALID_REQUEST == "invalid_request"
RATE_LIMITED == "rate_limited"

VALIDATION_ERRORS ==
  {DAEMON_NOT_READY, WALLET_LOCKED, NO_KEYSTORE, PERMISSION_DENIED,
   INVALID_REQUEST, RATE_LIMITED}

\* Thrown by a check, but not a ValidationError: `for (const field of required)`
\* over a value that is not iterable.
TYPE_ERROR == "TypeError"

\* A check that returns without throwing.
Passed == "ok"

\* request.type / request.origin absent (undefined)
NoType == "undefined"
NoOrigin == "undefined"

\* The pipeline was built without a permission manager (null).
NoPermissionManager == [configured |-> FALSE, grants |-> {}]

\* A permission manager, given by the (origin, type) pairs it grants.
PermissionManager(grants) == [configured |-> TRUE, grants |-> grants]

WindowMs == 60000

\* A request is {type, origin, data}; data is the set of fields of request.data
\* that hold a value other than undefined and null.
Request(type, origin, data) == [type |-> type, origin |-> origin, data |-> data]

alwaysAllowed == {"get_status", "ping", "shutdown"}

_validateDaemonState(sm, request) ==
  IF sm.currentState = STARTING THEN DAEMON_NOT_READY
  ELSE IF sm.currentState = ERROR THEN DAEMON_NOT_READY
  ELSE IF request.type \notin alwaysAllowed /\ sm.currentState = STARTING
       THEN DAEMON_NOT_READY
  ELSE Passed

keystoreRequired ==
  {"unlock_keystore", "get_accounts", "sign_transaction", "sign_message",
   "eth_accounts", "eth_sendTransaction", "personal_sign"}

_validateKeystore(ks, request) ==
  IF request.type \in keystoreRequired /\ ~hasKeystore(ks)
  THEN NO_KEYSTORE
  ELSE Passed

unlockRequired ==
  {"get_accounts", "sign_transaction", "sign_message", "eth_accounts",
   "eth_sendTransaction", "personal_sign", "eth_sign"}

\* A plausible slip: the check mirrors the handlers' own test, isState(LOCKED).
_validateSession_LockedOnly(sm, request) ==
  IF request.type \in unlockRequired /\ sm.currentState = LOCKED
  THEN WALLET_LOCKED
  ELSE Passed

_validateSession(sm, request) ==
  IF request.type \in unlockRequired /\ sm.currentState # UNLOCKED
  THEN WALLET_LOCKED
  ELSE Passed

\* permissionManager.checkPermission(origin, type): the manager is its grants.
checkPermission(pm, origin, type) == <<origin, type>> \in pm.grants

_validatePermissions(pm, request) ==
  IF ~pm.configured THEN Passed
  ELSE IF request.origin # NoOrigin /\ request.origin # "cli"
          /\ ~checkPermission(pm, request.origin, request.type)
       THEN PERMISSION_DENIED
  ELSE Passed

\* Property names every object literal inherits from Object.prototype: looking
\* one up in a literal used as a table yields a function or object, never undefined.
ObjectPrototypeKeys ==
  {"constructor", "toString", "valueOf", "hasOwnProperty", "isPrototypeOf",
   "propertyIsEnumerable", "toLocaleString", "__proto__"}

\* A JavaScript value used as a limit: a number, or something that is not one.
Number(n) == [numeric |-> TRUE, value |-> n]

NotANumber == [numeric |-> FALSE, value |-> 0]

\* a >= limit in JavaScript: false whenever the limit converts to NaN.
JsGreaterEq(a, limit) == limit.numeric /\ a >= limit.value

\* limits[requestType] || 30
_getRateLimit(requestType) ==
  CASE requestType = "sign_transaction" -> Number(10)
    [] requestType = "sign_message"     -> Number(20)
    [] requestType = "unlock_keystore"  -> Number(5)
    [] requestType = "get_status"       -> Number(100)
    [] requestType = "get_accounts"     -> Number(50)
    [] requestType \in ObjectPrototypeKeys -> NotANumber
    [] OTHER                            -> Number(30)

\* `${request.origin || 'cli'}:${request.type}`
RateKey(request) ==
  <<IF request.origin = NoOrigin THEN "cli" ELSE request.origin, request.type>>

RECURSIVE SeqFilter(_, _, _)
\* requests.filter(time => now - time < 60000)
SeqFilter(times, t, window) ==
  IF times = << >> THEN << >>
  ELSE IF t - Head(times) < window
       THEN <<Head(times)>> \o SeqFilter(Tail(times), t, window)
       ELSE SeqFilter(Tail(times), t, window)

\* _validateRateLimit: the code thrown (or Passed) and the rateLimiter map afterwards.
_validateRateLimit(rl, t, request) ==
  LET key      == RateKey(request)
      limit    == _getRateLimit(request.type)
      present  == IF key \in DOMAIN rl THEN rl ELSE (key :> << >>) @@ rl
      filtered == SeqFilter(present[key], t, WindowMs)
  IN IF JsGreaterEq(Len(filtered), limit)
     THEN [code |-> RATE_LIMITED, rateLimiter |-> present]
     ELSE [code |-> Passed,
           rateLimiter |-> [present EXCEPT ![key] = Append(filtered, t)]]

requiredFields ==
  [ type \in {"unlock_keystore", "sign_transaction", "sign_message",
              "eth_sendTransaction"} |->
      CASE type = "unlock_keystore"     -> <<"password">>
        [] type = "sign_transaction"    -> <<"transaction", "address">>
        [] type = "sign_message"        -> <<"message", "address">>
        [] type = "eth_sendTransaction" -> <<"transaction">> ]

\* A plausible slip: only the first required field is looked at.
_validateRequest_FirstFieldOnly(request) ==
  IF request.type = NoType THEN INVALID_REQUEST
  ELSE IF request.type \in ObjectPrototypeKeys THEN TYPE_ERROR
  ELSE IF request.type \in DOMAIN requiredFields
          /\ requiredFields[request.type][1] \notin request.data
       THEN INVALID_REQUEST
  ELSE Passed

_validateRequest(request) ==
  IF request.type = NoType THEN INVALID_REQUEST
  ELSE IF request.type \in ObjectPrototypeKeys THEN TYPE_ERROR
  ELSE IF request.type \in DOMAIN requiredFields
          /\ \E i \in 1..Len(requiredFields[request.type]) :
               requiredFields[request.type][i] \notin request.data
       THEN INVALID_REQUEST
  ELSE Passed

\* A plausible slip: the schema validation listed before the rate limit.
validations_SchemaBeforeRateLimit ==
  <<"daemonState", "keystore", "session", "permissions", "request", "rateLimit">>

\* The order of the validations array in validate().
validations ==
  <<"daemonState", "keystore", "session", "permissions", "rateLimit", "request">>

\* One entry of the validations array applied: the code and the rateLimiter afterwards.
RunValidation(name, sm, ks, pm, rl, t, request) ==
  CASE name = "daemonState" -> [code |-> _validateDaemonState(sm, request), rateLimiter |-> rl]
    [] name = "keystore"    -> [code |-> _validateKeystore(ks, request), rateLimiter |-> rl]
    [] name = "session"     -> [code |-> _validateSession(sm, request), rateLimiter |-> rl]
    [] name = "permissions" -> [code |-> _validatePermissions(pm, request), rateLimiter |-> rl]
    [] name = "rateLimit"   -> _validateRateLimit(rl, t, request)
    [] name = "request"     -> [code |-> _validateRequest(request), rateLimiter |-> rl]

RECURSIVE ValidateFrom(_, _, _, _, _, _, _, _)
\* for (const validation of validations) await validation();
ValidateFrom(i, ran, sm, ks, pm, rl, t, request) ==
  IF i > Len(validations)
  THEN [code |-> Passed, checks |-> ran, rateLimiter |-> rl]
  ELSE LET r == RunValidation(validations[i], sm, ks, pm, rl, t, request) IN
       IF r.code # Passed
       THEN [code |-> r.code, checks |-> Append(ran, validations[i]),
             rateLimiter |-> r.rateLimiter]
       ELSE ValidateFrom(i + 1, Append(ran, validations[i]), sm, ks, pm,
                         r.rateLimiter, t, request)

\* validate(request): Passed when it returns true, else the ValidationError's code;
\* checks lists the validations that ran.
validate(sm, ks, pm, rl, t, request) ==
  ValidateFrom(1, << >>, sm, ks, pm, rl, t, request)

\* lastValidation before any validate() call.
NoValidation ==
  [ request |-> Request(NoType, NoOrigin, {}), state |-> NoState,
    time |-> 0, code |-> "none", checks |-> << >> ]

----------------------------------------------------------------------------
(* SpecSM: the DaemonStateManager driven through its public operations.    *)

\* Before any response, and before any approval prompt has returned.
NoResponse == [id |-> 0, transport |-> "none", kind |-> "none", code |-> "none"]

NoApproval == [id |-> 0, method |-> "none", outcome |-> "none", signed |-> FALSE]

WatcherNew == [isWatching |-> FALSE, lastModified |-> 0]

\* The orchestrator's own fields after new EnhancedDaemonService().
DaemonConstructed ==
  /\ phase = "constructed"
  /\ sessionManager = SessionManagerNew
  /\ watcher = WatcherNew
  /\ pending = {}
  /\ lastResponse = NoResponse
  /\ nextId = 0
  /\ signCalls = 0
  /\ lastApproval = NoApproval

NoCall == [op |-> "none", from |-> NoState, to |-> NoState, ok |-> FALSE]

\* Every object of the daemon process as constructed, nothing called yet.
CoreIdle ==
  /\ stateManager = DaemonStateManagerNew
  /\ smCall = NoCall
  /\ consecErrors = 0
  /\ keystore = KeystoreNew
  /\ permissionManager = NoPermissionManager
  /\ rateLimiter = << >>
  /\ now = 0
  /\ alphabet = {}
  /\ cap = 0
  /\ accepted = << >>
  /\ lastValidation = NoValidation
  /\ DaemonConstructed
  /\ disk = EmptyDisk
  /\ native = "off"

InitSM ==
  /\ ExtIdle
  /\ stateManager = DaemonStateManagerNew
  /\ smCall = NoCall
  /\ consecErrors = 0
  /\ keystore = KeystoreNew
  /\ permissionManager = NoPermissionManager
  /\ rateLimiter = << >>
  /\ now = 0
  /\ alphabet = {}
  /\ cap = 0
  /\ accepted = << >>
  /\ lastValidation = NoValidation
  /\ DaemonConstructed
  /\ disk = EmptyDisk
  /\ native = "off"

SMTransition ==
  \E newState \in DAEMON_STATES :
    LET r == transition(stateManager, newState, DefaultMetadata) IN
    /\ stateManager' = r.sm
    /\ smCall' = [op |-> "transition", from |-> stateManager.currentState,
                  to |-> newState, ok |-> r.ok]
    /\ consecErrors' = IF r.ok /\ newState # ERROR THEN 0 ELSE consecErrors
    /\ UNCHANGED vpVars
    /\ UNCHANGED daemonVars
    /\ UNCHANGED extVars

SMHandleError ==
  /\ consecErrors < MaxConsecErrors
  /\ stateManager' = handleError(stateManager)
  /\ smCall' = [op |-> "handleError", from |-> stateManager.currentState,
                to |-> ERROR, ok |-> stateManager.currentState # ERROR]
  /\ consecErrors' = consecErrors + 1
  /\ UNCHANGED vpVars
  /\ UNCHANGED daemonVars
  /\ UNCHANGED extVars

NextSM == SMTransition \/ SMHandleError

SpecSM == InitSM /\ [][NextSM]_vars

----------------------------------------------------------------------------
(* The environment of the pipeline: requests, clock, collaborators         *)

\* Clock granularity: the rate-limit window is TicksPerWindow clock steps.
TicksPerWindow == 2

TickMs == WindowMs \div TicksPerWindow

\* Bound on the requests of one key accepted in a behaviour of SpecVP / SpecRL.
MaxAcceptedVP == 6

MaxAcceptedRL == 31

RequestTypes ==
  {"unlock_keystore", "lock_keystore", "get_status", "shutdown", "ping",
   "get_accounts", "sign_transaction", "sign_message", "eth_accounts",
   "eth_sendTransaction", "personal_sign", "eth_sign", "eth_requestAccounts",
   "wallet_status", "wallet_unlock", "constructor", NoType}

Origins == {"cli", "unknown", "dapp", NoOrigin}

FieldsOf(type) ==
  IF type \in DOMAIN requiredFields
  THEN {requiredFields[type][i] : i \in 1..Len(requiredFields[type])}
  ELSE {}

AllRequests ==
  UNION { {Request(type, origin, data) : data \in SUBSET FieldsOf(type)} :
          <<type, origin>> \in RequestTypes \X Origins }

\* The state manager after the given successful transitions from construction.
RECURSIVE StateManagerAfter(_)
StateManagerAfter(path) ==
  IF path = << >> THEN DaemonStateManagerNew
  ELSE transition(StateManagerAfter(SubSeq(path, 1, Len(path) - 1)),
                  path[Len(path)], DefaultMetadata).sm

ReachableStateManagers ==
  { StateManagerAfter(<< >>),
    StateManagerAfter(<<READY>>),
    StateManagerAfter(<<READY, LOCKED>>),
    StateManagerAfter(<<READY, LOCKED, UNLOCKED>>),
    StateManagerAfter(<<ERROR>>) }

\* A keystore whose file was loaded from disk (locked), and one unlocked.
KeystoreLoaded == [KeystoreNew EXCEPT !.encryptedData = WalletFile]

KeystoreUnlocked ==
  [KeystoreLoaded EXCEPT !.isLocked = FALSE, !.wallets = WalletAccounts]

PermissionManagers ==
  { NoPermissionManager,
    PermissionManager({}),
    PermissionManager({"dapp"} \X RequestTypes) }

AcceptedOf(key) == IF key \in DOMAIN accepted THEN accepted[key] ELSE << >>

\* Whether the rate-limit validation ran and returned without throwing.
RateLimitPassed(r) ==
  \E i \in 1..Len(r.checks) :
    r.checks[i] = "rateLimit" /\ (i < Len(r.checks) \/ r.code = Passed)

\* What a validate() call leaves behind: the rate limiter's map, and the
\* observations of the call.
Validated(request, r) ==
  /\ rateLimiter' = r.rateLimiter
  /\ accepted' = IF RateLimitPassed(r)
                 THEN (RateKey(request) :> Append(AcceptedOf(RateKey(request)), now))
                        @@ accepted
                 ELSE accepted
  /\ lastValidation' =
       [ request |-> request, state |-> stateManager.currentState,
         time |-> now, code |-> r.code, checks |-> r.checks ]

\* One call of validationPipeline.validate(request) by a caller that does
\* nothing else (the callers of the orchestrator are modelled below).
Validate ==
  \E request \in alphabet :
    LET key == RateKey(request)
        r   == validate(stateManager, keystore, permissionManager,
                        rateLimiter, now, request)
    IN /\ Len(AcceptedOf(key)) < cap
       /\ Validated(request, r)
       /\ UNCHANGED <<keystore, permissionManager, now, alphabet, cap>>
       /\ UNCHANGED smVars
       /\ UNCHANGED daemonVars
       /\ UNCHANGED extVars

Tick ==
  /\ now < WindowMs
  /\ now' = now + TickMs
  /\ UNCHANGED <<keystore, permissionManager, rateLimiter, alphabet, cap,
                 accepted, lastValidation>>
  /\ UNCHANGED smVars
  /\ UNCHANGED daemonVars
  /\ UNCHANGED extVars

InitVPCommon ==
  /\ ExtIdle
  /\ smCall = NoCall
  /\ consecErrors = 0
  /\ rateLimiter = << >>
  /\ now = 0
  /\ accepted = << >>
  /\ lastValidation = NoValidation
  /\ DaemonConstructed
  /\ disk = EmptyDisk
  /\ native = "off"

\* SpecVP: validate() applied to one request shape, repeatedly, in every
\* combination of daemon state, keystore presence and permission manager.
InitVP ==
  /\ InitVPCommon
  /\ stateManager \in ReachableStateManagers
  /\ keystore \in {KeystoreNew, KeystoreLoaded}
  /\ permissionManager \in PermissionManagers
  /\ alphabet \in {{request} : request \in AllRequests}
  /\ cap = MaxAcceptedVP

NextVP == Validate \/ Tick

SpecVP == InitVP /\ [][NextVP]_vars

\* SpecRL: the rate limiter under sustained load, with the wallet unlocked.
RLAlphabets ==
  { { Request("unlock_keystore", "cli", {"password"}),
      Request("unlock_keystore", "unknown", {"password"}) },
    { Request("sign_transaction", "cli", {"transaction", "address"}) },
    { Request("sign_message", "dapp", {"message", "address"}) },
    { Request("lock_keystore", "cli", {}) },
    { Request("get_accounts", "cli", {}) },
    { Request("get_status", NoOrigin, {}) },
    { Request("constructor", "cli", {}) } }

InitRL ==
  /\ InitVPCommon
  /\ stateManager = StateManagerAfter(<<READY, LOCKED, UNLOCKED>>)
  /\ keystore = KeystoreUnlocked
  /\ permissionManager = NoPermissionManager
  /\ alphabet \in RLAlphabets
  /\ cap = MaxAcceptedRL

NextRL == Validate \/ Tick

SpecRL == InitRL /\ [][NextRL]_vars

----------------------------------------------------------------------------
(* EnhancedDaemonService: the orchestrator                                 *)

\* Bounds on the messages received in a behaviour (in the one that floods the
\* daemon with unlock requests: MaxBurst), the handlers suspended at once and
\* the writes to the keystore directory.
MaxRequests == 3

MaxBurst == 6

MaxPending == 2

MaxDiskWrites == 1

\* The orchestrator's components as one value, so that a handler is a
\* function from the components before it ran to the components after.
Daemon ==
  [ stateManager   |-> stateManager,
    keystore       |-> keystore,
    sessionManager |-> sessionManager,
    pending        |-> pending,
    lastResponse   |-> lastResponse,
    signCalls      |-> signCalls,
    lastApproval   |-> lastApproval,
    phase          |-> phase ]

Becomes(d) ==
  /\ stateManager' = d.stateManager
  /\ keystore' = d.keystore
  /\ sessionManager' = d.sessionManager
  /\ pending' = d.pending
  /\ lastResponse' = d.lastResponse
  /\ signCalls' = d.signCalls
  /\ lastApproval' = d.lastApproval
  /\ phase' = d.phase

\* server.sendToClient / nativeMessaging.sendResponse / sendError
respond(d, id, transport, kind, code) ==
  [d EXCEPT !.lastResponse =
     [id |-> id, transport |-> transport, kind |-> kind, code |-> code]]

\* A plausible slip: the state is first brought to READY so that LOCKED and
\* UNLOCKED can be entered from wherever the daemon is.
_updateStateFromKeystore_ViaReady(d) ==
  LET target == IF ~hasKeystore(d.keystore) THEN READY
                ELSE IF d.keystore.isLocked THEN LOCKED
                ELSE UNLOCKED
      ready  == transition(d.stateManager, READY, Metadata("keystore", FALSE)).sm
  IN [d EXCEPT !.stateManager = transition(ready, target, Metadata("keystore", FALSE)).sm]

\* _updateStateFromKeystore()
_updateStateFromKeystore(d) ==
  LET target == IF ~hasKeystore(d.keystore) THEN READY
                ELSE IF d.keystore.isLocked THEN LOCKED
                ELSE UNLOCKED
  IN [d EXCEPT !.stateManager = transition(@, target, Metadata("keystore", FALSE)).sm]

\* The listeners setupEventHandlers() registers on the keystore's events.
onKeystoreUnlocked(d) ==
  [d EXCEPT !.sessionManager = SessionManager_unlock(@, getAccounts(d.keystore)),
            !.stateManager = transition(@, UNLOCKED, Metadata("unlocked", FALSE)).sm]

onKeystoreLocked(d) ==
  [d EXCEPT !.sessionManager = SessionManager_lock(@),
            !.stateManager = transition(@, LOCKED, EmptyMetadata).sm]

onKeystoreError(d) == [d EXCEPT !.stateManager = handleError(@)]

\* EnhancedKeystore.lock(): locks and emits LOCKED.
EnhancedKeystore_lock(d) ==
  onKeystoreLocked([d EXCEPT !.keystore = Keystore_lock(@)])

\* EnhancedKeystore.reload(): load() and the events it emits.
reload(d, dsk) ==
  LET loaded == [d EXCEPT !.keystore = Keystore_load(@, dsk)]
  IN \* LOADED or CHANGED{updated}: both listeners call _updateStateFromKeystore;
     \* CHANGED{removed} and the LOCKED emission need load() to clear
     \* encryptedData or to set isLocked, which it never does.
     IF hasKeystore(loaded.keystore) THEN _updateStateFromKeystore(loaded)
     ELSE loaded

\* A handler suspended at an await: kind is "approval" (an approval prompt),
\* "password" (the unlock prompt) or "derive" (key derivation in unlock).
Suspended(id, kind, transport, method, arg) ==
  [id |-> id, kind |-> kind, transport |-> transport, method |-> method, arg |-> arg]

\* A message on a transport: its type (IPC) or method (native), the origin
\* field (native), the fields present in its data (IPC), and the argument the
\* handler reads: the password for unlock_keystore, the address for a sign
\* method, "none" when the params are missing.
Message(transport, type, origin, data, arg) ==
  [transport |-> transport, type |-> type, origin |-> origin, data |-> data,
   arg |-> arg]

\* DaemonIPCServer.handleUnlockKeystore up to the await in Keystore.unlock
handleUnlockKeystore(d, id, message) ==
  IF message.arg = ""
  THEN respond(d, id, "ipc", "unlock_response", "password_required")
  ELSE IF Keystore_unlockBegin(d.keystore) = "throws"
  THEN respond(onKeystoreError(d), id, "ipc", "unlock_response", "failed")
  ELSE [d EXCEPT !.pending =
          @ \cup {Suspended(id, "derive", "ipc", message.type, message.arg)}]

\* DaemonIPCServer.handleLockKeystore: no response is sent
handleLockKeystore(d) ==
  LET locked == EnhancedKeystore_lock(d)
  IN [locked EXCEPT !.sessionManager = SessionManager_lock(@)]

\* DaemonIPCServer.handleShutdown: process.exit follows 100 ms later
handleShutdown(d) ==
  LET locked == EnhancedKeystore_lock(d)
  IN [locked EXCEPT !.sessionManager = destroy(@), !.phase = "stopping"]

\* DaemonIPCServer.handleMessage: the components afterwards, and whether it threw.
handleMessage(d, id, message) ==
  CASE message.type = "get_status" ->
         [daemon |-> respond(d, id, "ipc", "status_response", "ok"), thrown |-> FALSE]
    [] message.type = "unlock_keystore" ->
         [daemon |-> handleUnlockKeystore(d, id, message), thrown |-> FALSE]
    [] message.type = "lock_keystore" ->
         [daemon |-> handleLockKeystore(d), thrown |-> FALSE]
    [] message.type = "shutdown" ->
         [daemon |-> handleShutdown(d), thrown |-> FALSE]
    [] OTHER -> [daemon |-> d, thrown |-> TRUE]

\* error.code || 'VALIDATION_ERROR'
ErrorCode(code) == IF code \in VALIDATION_ERRORS THEN code ELSE "VALIDATION_ERROR"

\* A plausible slip: the original handler runs before the pipeline's verdict
\* is looked at.
enhancedHandleMessage_HandlerFirst(d, id, message, code) ==
  LET r == handleMessage(d, id, message)
  IN IF code # Passed THEN respond(r.daemon, id, "ipc", "error", ErrorCode(code))
     ELSE IF r.thrown THEN respond(r.daemon, id, "ipc", "error", "VALIDATION_ERROR")
     ELSE r.daemon

\* The handler _setupEnhancedIPCHandlers installs, given what validate() threw
\* (or Passed).
enhancedHandleMessage(d, id, message, code) ==
  IF code # Passed THEN respond(d, id, "ipc", "error", ErrorCode(code))
  ELSE LET r == handleMessage(d, id, message)
       IN IF r.thrown THEN respond(r.daemon, id, "ipc", "error", "VALIDATION_ERROR")
          ELSE r.daemon

SignMethods == {"eth_sendTransaction", "eth_sign", "personal_sign"}

\* handleWalletUnlock up to the unlock prompt
handleWalletUnlock(d, id, message) ==
  IF ~hasKeystore(d.keystore) THEN respond(d, id, "native", "error", "-1")
  ELSE IF d.stateManager.currentState # LOCKED
  THEN respond(d, id, "native", "result", "ok")
  ELSE [d EXCEPT !.pending =
          @ \cup {Suspended(id, "password", "native", message.type, "none")}]

\* handleEthRequestAccounts up to the account-access prompt
handleEthRequestAccounts(d, id, message) ==
  IF d.stateManager.currentState = LOCKED
  THEN respond(d, id, "native", "error", "-1")
  ELSE [d EXCEPT !.pending =
          @ \cup {Suspended(id, "approval", "native", message.type, message.arg)}]

\* handleEthSendTransaction / handleEthSign / handlePersonalSign up to the
\* approval prompt
handleSignRequest(d, id, message) ==
  IF d.stateManager.currentState = LOCKED \/ message.arg = "none"
  THEN respond(d, id, "native", "error", "-1")
  ELSE [d EXCEPT !.pending =
          @ \cup {Suspended(id, "approval", "native", message.type, message.arg)}]

\* handleNativeMessage
handleNativeMessage(d, id, message) ==
  CASE message.type \in {"wallet_status", "eth_accounts"} ->
         respond(d, id, "native", "result", "ok")
    [] message.type = "wallet_unlock" -> handleWalletUnlock(d, id, message)
    [] message.type = "eth_requestAccounts" -> handleEthRequestAccounts(d, id, message)
    [] message.type \in SignMethods -> handleSignRequest(d, id, message)
    [] OTHER -> respond(d, id, "native", "error", "-1")

\* The 'message' listener setupNativeMessaging registers, given what
\* validate() threw (or Passed).
onNativeMessage(d, id, message, code) ==
  IF code # Passed THEN respond(d, id, "native", "error", "-1")
  ELSE handleNativeMessage(d, id, message)

\* A plausible slip: the signing call is made before the prompt's answer is
\* looked at.
afterApproval_SignFirst(d, p, outcome) ==
  LET signing == Keystore_sign(d.keystore, p.arg)
      called  == [d EXCEPT !.signCalls = @ + 1,
                           !.lastApproval = [id |-> p.id, method |-> p.method,
                                             outcome |-> outcome, signed |-> TRUE]]
  IN IF outcome = "failed" THEN respond(called, p.id, "native", "error", "-1")
     ELSE IF outcome = "refused" THEN respond(called, p.id, "native", "error", "4001")
     ELSE IF signing = "signed" THEN respond(called, p.id, "native", "result", "ok")
     ELSE respond(called, p.id, "native", "error", "-1")

\* The rest of a sign handler once its approval prompt has settled: outcome
\* is "approved" (true), "refused" (false) or "failed" (the prompt rejected).
afterApproval(d, p, outcome) ==
  LET noted   == [d EXCEPT !.lastApproval = [id |-> p.id, method |-> p.method,
                                             outcome |-> outcome, signed |-> FALSE]]
      signing == Keystore_sign(d.keystore, p.arg)
      called  == [noted EXCEPT !.signCalls = @ + 1, !.lastApproval.signed = TRUE]
  IN IF outcome = "failed" THEN respond(noted, p.id, "native", "error", "-1")
     ELSE IF outcome = "refused" THEN respond(noted, p.id, "native", "error", "4001")
     ELSE IF p.method \notin SignMethods THEN respond(noted, p.id, "native", "result", "ok")
     ELSE IF signing = "signed" THEN respond(called, p.id, "native", "result", "ok")
     ELSE respond(called, p.id, "native", "error", "-1")

\* handleWalletUnlock once the unlock prompt has returned a password
afterPassword(d, p, password) ==
  IF Keystore_unlockBegin(d.keystore) = "throws"
  THEN respond(onKeystoreError(d), p.id, "native", "error", "-1")
  ELSE [d EXCEPT !.pending =
          @ \cup {Suspended(p.id, "derive", "native", p.method, password)}]

\* EnhancedKeystore.unlock and its caller once key derivation has finished
afterDerive(d, p) ==
  LET r        == Keystore_unlockEnd(d.keystore, p.arg)
      unlocked == onKeystoreUnlocked([d EXCEPT !.keystore = r.keystore])
      session  == [unlocked EXCEPT !.sessionManager =
                     SessionManager_unlock(@, getAccounts(r.keystore))]
      kind     == IF p.transport = "ipc" THEN "unlock_response" ELSE "result"
  IN IF r.result THEN respond(session, p.id, p.transport, kind, "ok")
     ELSE respond(d, p.id, p.transport, kind, "invalid_password")

\* EnhancedKeystore.init(): outcome is "ok", "watch_failed" (startWatching
\* caught an error and emitted ERROR) or "init_failed" (init threw).
EnhancedKeystore_init(d, dsk, outcome) ==
  IF outcome = "init_failed" THEN onKeystoreError(d)
  ELSE LET loaded  == [d EXCEPT !.keystore = Keystore_load(@, dsk)]
           watched == IF outcome = "watch_failed" THEN onKeystoreError(loaded)
                      ELSE loaded
       IN IF hasKeystore(watched.keystore) THEN _updateStateFromKeystore(watched)
          ELSE watched

Live == phase \in {"initialized", "running", "stopping"}

Serving == phase \in {"running", "stopping"}

unchangedByHandlers ==
  UNCHANGED <<smCall, consecErrors, permissionManager, alphabet, cap, extVars>>

\* start() up to the end of keystore.init()
StartInit ==
  /\ phase = "constructed"
  /\ \E outcome \in {"ok", "watch_failed", "init_failed"} :
       LET begun == [Daemon EXCEPT !.stateManager =
                       transition(@, STARTING, Metadata("start", FALSE)).sm]
           inited == EnhancedKeystore_init(begun, disk, outcome)
       IN /\ IF outcome = "init_failed"
             THEN Becomes([inited EXCEPT !.stateManager = handleError(@),
                                         !.phase = "exited"])
             ELSE Becomes([inited EXCEPT !.phase = "initialized"])
          /\ watcher' = IF outcome = "ok"
                        THEN [isWatching |-> TRUE, lastModified |-> disk.mtime]
                        ELSE watcher
  /\ unchangedByHandlers
  /\ UNCHANGED <<rateLimiter, now, accepted, lastValidation, disk, native, nextId>>

\* start() from startIPCServer() to its end
StartServe ==
  /\ phase = "initialized"
  /\ \E listening \in BOOLEAN :
       IF ~listening
       THEN Becomes([Daemon EXCEPT !.stateManager = handleError(@),
                                   !.phase = "exited"])
       ELSE LET connected == IF native = "open"
                             THEN [Daemon EXCEPT !.sessionManager = addSession(@)]
                             ELSE Daemon
            IN Becomes([_updateStateFromKeystore(connected) EXCEPT !.phase = "running"])
  /\ unchangedByHandlers
  /\ UNCHANGED <<rateLimiter, now, accepted, lastValidation, watcher, disk,
                 native, nextId>>

\* The wallet CLI (another process) writes a keystore file.
DiskWrite ==
  /\ phase # "exited"
  /\ disk.clock < MaxDiskWrites
  /\ \E content \in {WalletFile, MalformedFile} :
       disk' = [mtime |-> disk.clock + 1, content |-> content,
                clock |-> disk.clock + 1]
  /\ UNCHANGED <<stateManager, smCall, consecErrors, keystore, permissionManager,
                 rateLimiter, now, alphabet, cap, accepted, lastValidation,
                 phase, sessionManager, watcher, native, pending, lastResponse,
                 nextId, signCalls, lastApproval, extVars>>

\* Every keystore file is removed from the directory (the wallet CLI's
\* deleteKeystore in another process, or the user).
DiskRemove ==
  /\ phase # "exited"
  /\ ~NoFiles(disk)
  /\ disk' = [EmptyDisk EXCEPT !.clock = disk.clock]
  /\ UNCHANGED <<stateManager, smCall, consecErrors, keystore, permissionManager,
                 rateLimiter, now, alphabet, cap, accepted, lastValidation,
                 phase, sessionManager, watcher, native, pending, lastResponse,
                 nextId, signCalls, lastApproval, extVars>>

\* The poll interval's callback, when it finds the directory changed
KeystorePoll ==
  /\ Live
  /\ watcher.isWatching
  /\ disk.mtime # watcher.lastModified
  /\ Becomes(reload(Daemon, disk))
  /\ watcher' = [watcher EXCEPT !.lastModified = disk.mtime]
  /\ unchangedByHandlers
  /\ UNCHANGED <<rateLimiter, now, accepted, lastValidation, disk, native, nextId>>

\* A message arrives on the IPC socket: the installed handler runs up to its
\* first suspension.
IPCRequest ==
  /\ Serving
  /\ nextId < cap
  /\ \E message \in alphabet :
       /\ message.transport = "ipc"
       /\ LET request == Request(message.type, "cli", message.data)
              v       == validate(stateManager, keystore, permissionManager,
                                  rateLimiter, now, request)
              after   == enhancedHandleMessage(Daemon, nextId + 1, message, v.code)
          IN /\ Cardinality(after.pending) <= MaxPending
             /\ Becomes(after)
             /\ Validated(request, v)
  /\ nextId' = nextId + 1
  /\ unchangedByHandlers
  /\ UNCHANGED <<now, watcher, disk, native>>

\* A message arrives on stdin: the 'message' listener runs up to its first
\* suspension.
NativeMessage ==
  /\ Serving
  /\ native = "open"
  /\ nextId < cap
  /\ \E message \in alphabet :
       /\ message.transport = "native"
       /\ LET origin  == IF message.origin = NoOrigin THEN "unknown"
                         ELSE message.origin
              request == Request(message.type, origin, {"params"})
              v       == validate(stateManager, keystore, permissionManager,
                                  rateLimiter, now, request)
              after   == onNativeMessage(Daemon, nextId + 1, message, v.code)
          IN /\ Cardinality(after.pending) <= MaxPending
             /\ Becomes(after)
             /\ Validated(request, v)
  /\ nextId' = nextId + 1
  /\ unchangedByHandlers
  /\ UNCHANGED <<now, watcher, disk, native>>

unchangedByContinuations ==
  UNCHANGED <<rateLimiter, now, accepted, lastValidation, watcher, disk, native,
              nextId>>

\* An approval prompt settles and its handler runs to the end.
ApprovalResolve ==
  /\ phase # "exited"
  /\ \E p \in pending, outcome \in {"approved", "refused", "failed"} :
       /\ p.kind = "approval"
       /\ Becomes(afterApproval([Daemon EXCEPT !.pending = @ \ {p}], p, outcome))
  /\ unchangedByHandlers
  /\ unchangedByContinuations

\* The unlock prompt returns a password.
PasswordEntered ==
  /\ phase # "exited"
  /\ \E p \in pending, password \in {"good", "bad"} :
       /\ p.kind = "password"
       /\ Becomes(afterPassword([Daemon EXCEPT !.pending = @ \ {p}], p, password))
  /\ unchangedByHandlers
  /\ unchangedByContinuations

\* Key derivation finishes and unlock() and its caller run to the end.
DeriveComplete ==
  /\ phase # "exited"
  /\ \E p \in pending :
       /\ p.kind = "derive"
       /\ Becomes(afterDerive([Daemon EXCEPT !.pending = @ \ {p}], p))
  /\ unchangedByHandlers
  /\ unchangedByContinuations

\* stdin delivers a frame that is not JSON: the 'error' listener
NativeError ==
  /\ Serving
  /\ native = "open"
  /\ Becomes([Daemon EXCEPT !.stateManager = handleError(@)])
  /\ unchangedByHandlers
  /\ unchangedByContinuations

\* stdin ends: the 'disconnect' listener
NativeDisconnect ==
  /\ Serving
  /\ native = "open"
  /\ native' = "ended"
  /\ Becomes([Daemon EXCEPT !.sessionManager = removeSession(@)])
  /\ unchangedByHandlers
  /\ UNCHANGED <<rateLimiter, now, accepted, lastValidation, watcher, disk, nextId>>

\* The session's unlock timer fires.
SessionTimer ==
  /\ phase # "exited"
  /\ sessionManager.unlockTimer
  /\ Becomes([Daemon EXCEPT !.sessionManager = SessionManager_lock(@)])
  /\ unchangedByHandlers
  /\ unchangedByContinuations

\* process.exit(0), 100 ms after handleShutdown
ProcessExit ==
  /\ phase = "stopping"
  /\ Becomes([Daemon EXCEPT !.phase = "exited"])
  /\ unchangedByHandlers
  /\ unchangedByContinuations

InitialDisks ==
  { EmptyDisk,
    [mtime |-> 1, content |-> WalletFile, clock |-> 1],
    [mtime |-> 1, content |-> MalformedFile, clock |-> 1] }

\* The messages sent in one behaviour, and how many of them.
Scenario(messages, count) == [alphabet |-> messages, cap |-> count]

DaemonScenarios ==
  { Scenario({ Message("ipc", "unlock_keystore", NoOrigin, {"password"}, "good"),
               Message("ipc", "lock_keystore", NoOrigin, {}, "none"),
               Message("native", "personal_sign", "dapp", {}, "0xa") },
             MaxRequests),
    Scenario({ Message("ipc", "unlock_keystore", NoOrigin, {"password"}, "bad"),
               Message("ipc", "unlock_keystore", NoOrigin, {}, "none") },
             MaxBurst),
    Scenario({ Message("ipc", "unlock_keystore", NoOrigin, {"password"}, "good"),
               Message("native", "eth_sign", NoOrigin, {}, "0xb"),
               Message("native", "eth_sendTransaction", "dapp", {}, "0xa") },
             MaxRequests),
    Scenario({ Message("ipc", "get_status", NoOrigin, {}, "none"),
               Message("ipc", "shutdown", NoOrigin, {}, "none"),
               Message("ipc", "sign_message", NoOrigin, {"message", "address"}, "0xa"),
               Message("ipc", "constructor", NoOrigin, {}, "none") },
             MaxRequests),
    Scenario({ Message("native", "wallet_unlock", "dapp", {}, "none"),
               Message("native", "eth_accounts", "dapp", {}, "none"),
               Message("native", "eth_requestAccounts", "dapp", {}, "none") },
             MaxRequests),
    Scenario({ Message("ipc", "unlock_keystore", NoOrigin, {"password"}, ""),
               Message("ipc", "get_accounts", NoOrigin, {}, "none"),
               Message("native", "wallet_status", NoOrigin, {}, "none"),
               Message("native", "personal_sign", NoOrigin, {}, "none") },
             MaxRequests),
    Scenario({ Message("native", "wallet_status", "cli", {}, "none"),
               Message("native", "wallet_status", "dapp", {}, "none"),
               Message("native", "wallet_status", NoOrigin, {}, "none") },
             MaxRequests) }

Init ==
  /\ ExtIdle
  /\ stateManager = DaemonStateManagerNew
  /\ smCall = NoCall
  /\ consecErrors = 0
  /\ keystore = KeystoreNew
  /\ permissionManager = NoPermissionManager
  /\ rateLimiter = << >>
  /\ now = 0
  /\ accepted = << >>
  /\ lastValidation = NoValidation
  /\ DaemonConstructed
  /\ disk \in InitialDisks
  /\ native \in {"off", "open"}
  /\ \E scenario \in DaemonScenarios :
       alphabet = scenario.alphabet /\ cap = scenario.cap

Next ==
  \/ StartInit \/ StartServe \/ DiskWrite \/ DiskRemove \/ KeystorePoll
  \/ IPCRequest \/ NativeMessage
  \/ ApprovalResolve \/ PasswordEntered \/ DeriveComplete
  \/ NativeError \/ NativeDisconnect \/ SessionTimer \/ ProcessExit

Spec == Init /\ [][Next]_vars

----------------------------------------------------------------------------
(* Claims about DaemonStateManager, checked under SpecSM                   *)

\* The transition table as the specification states it.
TransitionTable ==
  { <<STARTING, READY>>, <<STARTING, ERROR>>,
    <<READY, LOCKED>>, <<READY, ERROR>>,
    <<LOCKED, UNLOCKED>>, <<LOCKED, READY>>, <<LOCKED, ERROR>>,
    <<UNLOCKED, LOCKED>>, <<UNLOCKED, READY>>, <<UNLOCKED, ERROR>>,
    <<ERROR, STARTING>>, <<ERROR, READY>> }

\* C1: transition(newState) succeeds exactly when (currentState, newState) is
\* an edge of the table; for every other pair, self-transitions included, it
\* returns false and leaves currentState, previousState, metadata, the history
\* and the error counter unchanged.
C1_TransitionTable ==
  [][ smCall'.op = "transition" =>
        /\ smCall'.from = stateManager.currentState
        /\ smCall'.ok = (<<stateManager.currentState, smCall'.to>> \in TransitionTable)
        /\ smCall'.ok => stateManager'.currentState = smCall'.to
        /\ ~smCall'.ok => stateManager' = stateManager ]_vars

\* C1 witness: a self-transition was attempted in UNLOCKED and refused.
C1_Witness ==
  /\ smCall.op = "transition"
  /\ smCall.from = UNLOCKED
  /\ smCall.to = UNLOCKED
  /\ ~smCall.ok
  /\ stateManager.currentState = UNLOCKED

\* C5: every error routed through handleError increments the error counter,
\* and after five consecutive errors (no successful non-ERROR transition in
\* between) the daemon is in ERROR with circuitBreakerTripped = true.
C5_CircuitBreaker ==
  /\ stateManager.errorCount >= consecErrors
  /\ consecErrors >= maxErrors =>
       /\ stateManager.currentState = ERROR
       /\ stateManager.metadata.circuitBreakerTripped

----------------------------------------------------------------------------
(* Claims about ValidationPipeline, checked under SpecVP and SpecRL        *)

\* The order of the six checks as the specification states it.
CheckOrder ==
  <<"daemonState", "keystore", "session", "permissions", "rateLimit", "request">>

\* C2: validate runs the six checks in the fixed order daemon-state, keystore,
\* session, permission, rate-limit, schema and stops at the first failure: the
\* rejection code is that of the earliest check the request fails, no later
\* check is evaluated, and validate returns true only when all six pass.
C2_FixedOrder ==
  [][ now' = now =>
        LET v == lastValidation'
            Outcome(i) == RunValidation(CheckOrder[i], stateManager, keystore,
                                        permissionManager, rateLimiter, now,
                                        v.request).code
            Failing == {i \in 1..Len(CheckOrder) : Outcome(i) # Passed}
        IN IF Failing = {}
           THEN v.code = Passed /\ v.checks = CheckOrder
           ELSE LET first == CHOOSE i \in Failing : \A j \in Failing : i <= j
                IN /\ v.code = Outcome(first)
                   /\ v.checks = SubSeq(CheckOrder, 1, first) ]_vars

\* C2 witness: a request that also lacks its required field was stopped by the
\* rate limit, the earlier of the two checks it fails.
C2_Witness ==
  /\ lastValidation.code = RATE_LIMITED
  /\ lastValidation.request.type = "unlock_keystore"
  /\ "password" \notin lastValidation.request.data
  /\ lastValidation.checks = SubSeq(CheckOrder, 1, 5)

\* C7: while the state is STARTING, get_status, ping and shutdown pass the
\* daemon-state check and every other type is rejected with daemon_not_ready;
\* while the state is ERROR every request is rejected with daemon_not_ready.
C7_AlwaysAllowedWhileStarting ==
  /\ (lastValidation.state = STARTING
      /\ lastValidation.request.type \in {"get_status", "ping", "shutdown"})
       => lastValidation.code # DAEMON_NOT_READY
  /\ (lastValidation.state = STARTING
      /\ lastValidation.request.type \notin {"get_status", "ping", "shutdown"})
       => lastValidation.code = DAEMON_NOT_READY
  /\ lastValidation.state = ERROR => lastValidation.code = DAEMON_NOT_READY

\* The requests C8 is about: a required schema field of the type is missing.
MissingRequiredField(request) ==
  \/ request.type = "unlock_keystore" /\ "password" \notin request.data
  \/ request.type = "sign_transaction"
       /\ ("transaction" \notin request.data \/ "address" \notin request.data)
  \/ request.type = "sign_message"
       /\ ("message" \notin request.data \/ "address" \notin request.data)
  \/ request.type = "eth_sendTransaction" /\ "transaction" \notin request.data

\* C8 as stated: a request missing a required schema field is rejected with
\* invalid_request in every daemon, keystore and rate-limiter state.
C8_AlwaysInvalidRequest ==
  (lastValidation.code # "none" /\ MissingRequiredField(lastValidation.request))
    => lastValidation.code = INVALID_REQUEST

\* C8 amended: a request missing a required schema field is never accepted;
\* it is rejected with invalid_request whenever the five earlier checks pass,
\* and otherwise with the code of an earlier check.
C8_NeverAccepted ==
  (lastValidation.code # "none" /\ MissingRequiredField(lastValidation.request))
    => /\ lastValidation.code \in VALIDATION_ERRORS
       /\ Len(lastValidation.checks) = Len(CheckOrder)
            => lastValidation.code = INVALID_REQUEST
       /\ Len(lastValidation.checks) < Len(CheckOrder)
            => lastValidation.code # INVALID_REQUEST

\* C8 witness: sign_transaction without data.address was rejected with
\* invalid_request while the wallet was unlocked.
C8_Witness ==
  /\ lastValidation.state = UNLOCKED
  /\ lastValidation.request.type = "sign_transaction"
  /\ lastValidation.request.data = {"transaction"}
  /\ lastValidation.code = INVALID_REQUEST

\* The quotas as the specification states them.
Quota(type) ==
  CASE type = "sign_transaction" -> 10
    [] type = "sign_message"     -> 20
    [] type = "unlock_keystore"  -> 5
    [] type = "get_status"       -> 100
    [] type = "get_accounts"     -> 50
    [] OTHER                     -> 30

\* The accepted requests of a key that are less than 60 s old at time t.
InWindow(key, t) ==
  {i \in 1..Len(AcceptedOf(key)) : t - AcceptedOf(key)[i] < WindowMs}

\* C9: per (origin, type) key with quota q (10, 20, 5, 100, 50 for the listed
\* types and 30 for every other type), no q + 1 accepted requests fall
\* within 60 s of each other; a request is rejected with rate_limited only
\* when q requests of its key were accepted in the last 60 s, so that once the
\* oldest of them is 60 s old a request is accepted again.
C9_SlidingWindow ==
  /\ \A key \in DOMAIN accepted :
       \A i \in 1..Len(accepted[key]) :
         i + Quota(key[2]) <= Len(accepted[key])
           => accepted[key][i + Quota(key[2])] - accepted[key][i] >= WindowMs
  /\ lastValidation.code = RATE_LIMITED =>
       Cardinality(InWindow(RateKey(lastValidation.request), lastValidation.time))
         = Quota(lastValidation.request.type)
  /\ (lastValidation.code \notin {"none", RATE_LIMITED}
      /\ Len(lastValidation.checks) >= 5) =>
       LET key == RateKey(lastValidation.request) IN
       /\ AcceptedOf(key) # << >>
       /\ AcceptedOf(key)[Len(AcceptedOf(key))] = lastValidation.time

----------------------------------------------------------------------------
(* Claims about the orchestrator, checked under Spec                       *)

\* The unlock-requiring request types as the specification lists them.
UnlockRequiringTypes ==
  {"get_accounts", "sign_transaction", "sign_message", "eth_accounts",
   "eth_sendTransaction", "personal_sign", "eth_sign"}

\* C3 as stated: a request of an unlock-requiring type that arrives while the
\* daemon state is not exactly UNLOCKED is rejected with wallet_locked.
C3_WalletLocked ==
  (lastValidation.code # "none"
   /\ lastValidation.request.type \in UnlockRequiringTypes
   /\ lastValidation.state # UNLOCKED)
    => lastValidation.code = WALLET_LOCKED

\* C3 amended: a request of an unlock-requiring type that arrives while the
\* daemon state is not exactly UNLOCKED is rejected by the pipeline, with
\* daemon_not_ready while the state is STARTING or ERROR, otherwise with
\* no_keystore when no keystore is loaded and the type is not eth_sign, and
\* otherwise with wallet_locked; an error is the only answer, no approval
\* prompt is opened and no Keystore signing operation is called.
C3_RejectedBeforeApproval ==
  [][ (nextId' # nextId
       /\ lastValidation'.request.type \in UnlockRequiringTypes
       /\ stateManager.currentState # UNLOCKED)
      => /\ lastValidation'.code =
              IF stateManager.currentState \in {STARTING, ERROR}
              THEN DAEMON_NOT_READY
              ELSE IF keystore.encryptedData = NoData
                      /\ lastValidation'.request.type # "eth_sign"
              THEN NO_KEYSTORE
              ELSE WALLET_LOCKED
         /\ lastResponse'.kind = "error"
         /\ lastResponse'.id = nextId'
         /\ pending' = pending
         /\ signCalls' = signCalls
         /\ lastApproval' = lastApproval ]_vars

\* C3 witness: personal_sign arrived on stdin while the daemon was LOCKED with
\* a keystore loaded and was answered with an error; nothing is suspended.
C3_Witness ==
  /\ lastValidation.request.type = "personal_sign"
  /\ lastValidation.state = LOCKED
  /\ lastValidation.code = WALLET_LOCKED
  /\ keystore.encryptedData = WalletFile
  /\ lastResponse = [id |-> nextId, transport |-> "native", kind |-> "error",
                     code |-> "-1"]
  /\ pending = {}
  /\ signCalls = 0

\* C4: for a native sign request (eth_sendTransaction, eth_sign,
\* personal_sign) Keystore.signTransaction/signMessage is invoked only in the
\* step in which the approval prompt of that same request returned true; when
\* the prompt returns false the request is answered with error 4001 and no
\* signing operation is invoked.
C4_SignOnlyAfterApproval ==
  [][ /\ signCalls' # signCalls =>
           \E p \in pending \ pending' :
             /\ p.kind = "approval"
             /\ p.method \in {"eth_sendTransaction", "eth_sign", "personal_sign"}
             /\ lastApproval' = [id |-> p.id, method |-> p.method,
                                 outcome |-> "approved", signed |-> TRUE]
             /\ signCalls' = signCalls + 1
      /\ \A p \in pending \ pending' :
           (p.kind = "approval"
            /\ p.method \in {"eth_sendTransaction", "eth_sign", "personal_sign"}
            /\ lastApproval'.id = p.id /\ lastApproval'.outcome = "refused")
             => /\ signCalls' = signCalls
                /\ lastResponse' = [id |-> p.id, transport |-> "native",
                                    kind |-> "error", code |-> "4001"] ]_vars

\* C4 witness: one personal_sign request was approved and signed, and the
\* prompt of a later one returned false and was answered with 4001.
C4_Witness ==
  /\ signCalls = 1
  /\ lastApproval.method = "personal_sign"
  /\ lastApproval.outcome = "refused"
  /\ ~lastApproval.signed
  /\ lastResponse.code = "4001"
  /\ lastResponse.id = lastApproval.id

\* A step of start(): the daemon is not running yet.
StartStep == phase \in {"constructed", "initialized"} /\ phase' # phase

C10_RejectionFrame ==
  [][ (nextId' # nextId /\ lastValidation'.code \in VALIDATION_ERRORS)
      => /\ stateManager' = stateManager
         /\ sessionManager' = sessionManager
         /\ keystore' = keystore
         /\ pending' = pending
         /\ signCalls' = signCalls
         /\ phase' = phase
         /\ lastResponse'.kind = "error"
         /\ lastResponse'.id = nextId'
         /\ lastResponse'.transport =
              IF "params" \in lastValidation'.request.data THEN "native"
              ELSE "ipc" ]_vars

\* C10 witness: the sixth unlock_keystore request within a minute was rejected
\* with rate_limited while the daemon was LOCKED, and answered on the socket.
C10_Witness ==
  /\ lastValidation.code = RATE_LIMITED
  /\ lastValidation.state = LOCKED
  /\ stateManager.currentState = LOCKED
  /\ lastResponse = [id |-> nextId, transport |-> "ipc", kind |-> "error",
                     code |-> RATE_LIMITED]
  /\ keystore.isLocked

----------------------------------------------------------------------------
(* NativeMessaging: length-prefixed JSON frames on stdin and stdout        *)

\* JSON values: numbers, strings (as code points) and arrays of values.
JsonNumber(n) == [kind |-> "number", n |-> n, chars |-> << >>, items |-> << >>]

JsonString(chars) == [kind |-> "string", n |-> 0, chars |-> chars, items |-> << >>]

JsonArray(items) == [kind |-> "array", n |-> 0, chars |-> << >>, items |-> items]

\* What a 'message' event carries when nothing was parsed.
NotJson == [kind |-> "none", n |-> 0, chars |-> << >>, items |-> << >>]

RECURSIVE Digits(_)
Digits(n) == IF n < 10 THEN <<48 + n>> ELSE Digits(n \div 10) \o <<48 + (n % 10)>>

\* JSON.stringify, to code points.  The strings used need no escaping.
RECURSIVE JSON_stringify(_)
JSON_stringify(value) ==
  LET RECURSIVE Join(_, _)
      Join(items, i) ==
        IF i > Len(items) THEN << >>
        ELSE (IF i > 1 THEN <<44>> ELSE << >>)
             \o JSON_stringify(items[i]) \o Join(items, i + 1)
  IN CASE value.kind = "number" -> Digits(value.n)
       [] value.kind = "string" -> <<34>> \o value.chars \o <<34>>
       [] OTHER                 -> <<91>> \o Join(value.items, 1) \o <<93>>

\* Buffer.from(string, 'utf8') of UTF-16 code units outside surrogate pairs:
\* an unpaired surrogate is written as U+FFFD
RECURSIVE Utf8Encode(_)
Utf8Encode(chars) ==
  IF chars = << >> THEN << >>
  ELSE LET c == Head(chars)
           bytes == IF c < 128 THEN <<c>>
                    ELSE IF c < 2048 THEN <<192 + (c \div 64), 128 + (c % 64)>>
                    ELSE IF c >= 55296 /\ c < 57344 THEN <<239, 191, 189>>
                    ELSE <<224 + (c \div 4096), 128 + ((c \div 64) % 64), 128 + (c % 64)>>
       IN bytes \o Utf8Encode(Tail(chars))

\* buffer.toString('utf8'): an ill-formed byte decodes to U+FFFD
RECURSIVE Utf8Decode(_)
Utf8Decode(bytes) ==
  IF bytes = << >> THEN << >>
  ELSE LET b == Head(bytes) IN
       IF b < 128 THEN <<b>> \o Utf8Decode(Tail(bytes))
       ELSE IF b >= 194 /\ b < 224 /\ Len(bytes) >= 2
               /\ bytes[2] >= 128 /\ bytes[2] < 192
       THEN <<(b - 192) * 64 + (bytes[2] - 128)>> \o Utf8Decode(Tail(Tail(bytes)))
       ELSE IF b >= 224 /\ b < 240 /\ Len(bytes) >= 3
               /\ bytes[2] >= 128 /\ bytes[2] < 192
               /\ bytes[3] >= 128 /\ bytes[3] < 192
               /\ (b = 224 => bytes[2] >= 160)
               /\ (b = 237 => bytes[2] < 160)
       THEN <<(b - 224) * 4096 + (bytes[2] - 128) * 64 + (bytes[3] - 128)>>
              \o Utf8Decode(SubSeq(bytes, 4, Len(bytes)))
       ELSE <<65533>> \o Utf8Decode(Tail(bytes))

\* buf.writeUInt32LE(n, 0) on a 4-byte buffer
writeUInt32LE(n) ==
  <<n % 256, (n \div 256) % 256, (n \div 65536) % 256, (n \div 16777216) % 256>>

\* buf.readUInt32LE(0) of a buffer of at least 4 bytes
readUInt32LE(buf) ==
  buf[1] + 256 * buf[2] + 65536 * buf[3] + 16777216 * buf[4]

\* The JSON values the peer sends.  "é" takes one code point and two bytes.
Messages ==
  { JsonNumber(7), JsonString(<<233>>), JsonArray(<< >>),
    JsonArray(<<JsonNumber(1), JsonString(<<97>>)>>) }

\* The values a payload of the model can denote: the messages and their parts.
JsonValues == Messages \cup {JsonNumber(1), JsonString(<<97>>)}

Whitespace == {9, 10, 13, 32}

RECURSIVE SkipLeading(_)
SkipLeading(chars) ==
  IF chars # << >> /\ Head(chars) \in Whitespace THEN SkipLeading(Tail(chars))
  ELSE chars

RECURSIVE SkipTrailing(_)
SkipTrailing(chars) ==
  IF chars # << >> /\ chars[Len(chars)] \in Whitespace
  THEN SkipTrailing(SubSeq(chars, 1, Len(chars) - 1))
  ELSE chars

\* JSON.parse on the texts of the model: the value whose text this is, white
\* space around it ignored, or a SyntaxError.
JSON_parse(chars) ==
  LET text  == SkipTrailing(SkipLeading(chars))
      found == {value \in JsonValues : JSON_stringify(value) = text}
  IN IF found = {} THEN [ok |-> FALSE, value |-> NotJson]
     ELSE [ok |-> TRUE, value |-> CHOOSE value \in found : TRUE]

\* What sendMessage writes to stdout for a message when connected, header first.
sendMessage(message) ==
  LET json       == JSON_stringify(message)
      jsonBuffer == Utf8Encode(json)
  IN writeUInt32LE(Len(jsonBuffer)) \o jsonBuffer

\* stream.read() returned null
NoChunk == << >>

\* process.stdin.read(size): size bytes of the buffer, or null when fewer are
\* buffered, unless the stream has ended, when what is left is returned;
\* read(0) returns null.
StreamRead(stream, size) ==
  LET available == Len(stream.buffer)
      take == IF size = 0 THEN 0
              ELSE IF size <= available THEN size
              ELSE IF stream.ended THEN available
              ELSE 0
  IN [chunk  |-> SubSeq(stream.buffer, 1, take),
      stream |-> [stream EXCEPT !.buffer = SubSeq(@, take + 1, available)]]

\* process.stdin.unshift(chunk)
StreamUnshift(stream, chunk) == [stream EXCEPT !.buffer = chunk \o @]

MessageEvent(value) == [type |-> "message", message |-> value]

ErrorEvent == [type |-> "error", message |-> NotJson]

DisconnectEvent == [type |-> "disconnect", message |-> NotJson]

\* readUInt32LE on a buffer shorter than 4 bytes throws out of the listener
RangeErrorThrown == [type |-> "throw", message |-> NotJson]

RECURSIVE readMessages_DropHeader(_, _)
readMessages_DropHeader(stream, events) ==
  LET header == StreamRead(stream, 4) IN
  IF header.chunk = NoChunk THEN [stdin |-> header.stream, emitted |-> events]
  ELSE IF Len(header.chunk) < 4
  THEN [stdin |-> header.stream, emitted |-> Append(events, RangeErrorThrown)]
  ELSE LET messageLength == readUInt32LE(header.chunk)
           body == StreamRead(header.stream, messageLength)
       IN IF body.chunk = NoChunk
          THEN [stdin |-> body.stream, emitted |-> events]
          ELSE LET parsed == JSON_parse(Utf8Decode(body.chunk))
                   event  == IF parsed.ok THEN MessageEvent(parsed.value)
                             ELSE ErrorEvent
               IN readMessages_DropHeader(body.stream, Append(events, event))

\* readMessages(): the 'readable' listener, run until it breaks out of its loop
RECURSIVE readMessages(_, _)
readMessages(stream, events) ==
  LET header == StreamRead(stream, 4) IN
  IF header.chunk = NoChunk THEN [stdin |-> header.stream, emitted |-> events]
  ELSE IF Len(header.chunk) < 4
  THEN [stdin |-> header.stream, emitted |-> Append(events, RangeErrorThrown)]
  ELSE LET messageLength == readUInt32LE(header.chunk)
           body == StreamRead(header.stream, messageLength)
       IN IF body.chunk = NoChunk
          THEN [stdin |-> StreamUnshift(body.stream, header.chunk),
                emitted |-> events]
          ELSE LET parsed == JSON_parse(Utf8Decode(body.chunk))
                   event  == IF parsed.ok THEN MessageEvent(parsed.value)
                             ELSE ErrorEvent
               IN readMessages(body.stream, Append(events, event))

MaxFrames == 3

\* Payloads that are not JSON: nothing at all, "[" and "7]"
GarbagePayloads == { << >>, <<91>>, <<55, 93>> }

\* A frame as the peer writes it: 4-byte little-endian length, then the payload
FrameChoices ==
  {[message |-> m, bytes |-> sendMessage(m)] : m \in Messages}
    \cup {[message |-> NotJson, bytes |-> writeUInt32LE(Len(p)) \o p] :
            p \in GarbagePayloads}

RECURSIVE BytesOf(_)
BytesOf(fs) == IF fs = << >> THEN << >> ELSE Head(fs).bytes \o BytesOf(Tail(fs))

\* SpecNM: the peer writes up to MaxFrames frames and closes the stream; the
\* bytes reach process.stdin in chunks cut anywhere.
InitNM ==
  /\ CoreIdle
  /\ IPCIdle
  /\ SessIdle
  /\ VaultIdle
  /\ CryptoIdle
  /\ frames \in UNION {[1..n -> FrameChoices] : n \in 1..MaxFrames}
  /\ wire = BytesOf(frames)
  /\ stdin = [buffer |-> << >>, ended |-> FALSE]
  /\ emitted = << >>

\* A chunk arrives on stdin: 'readable'
StdinReadable ==
  /\ wire # << >>
  /\ \E size \in 1..Len(wire) :
       LET chunk == SubSeq(wire, 1, size)
           r == readMessages([stdin EXCEPT !.buffer = @ \o chunk], emitted)
       IN /\ wire' = SubSeq(wire, size + 1, Len(wire))
          /\ stdin' = r.stdin
          /\ emitted' = r.emitted
  /\ UNCHANGED frames
  /\ UNCHANGED coreVars
  /\ UNCHANGED <<ipcVars, sessVars, vaultVars, cryptoVars>>

\* The peer closes the stream: 'readable' a last time, then 'end' once the
\* buffer has been drained
StdinEnd ==
  /\ wire = << >>
  /\ ~stdin.ended
  /\ LET r == readMessages([stdin EXCEPT !.ended = TRUE], emitted)
     IN /\ stdin' = r.stdin
        /\ emitted' = IF r.stdin.buffer = << >>
                      THEN Append(r.emitted, DisconnectEvent)
                      ELSE r.emitted
  /\ UNCHANGED <<frames, wire>>
  /\ UNCHANGED coreVars
  /\ UNCHANGED <<ipcVars, sessVars, vaultVars, cryptoVars>>

NextNM == StdinReadable \/ StdinEnd

SpecNM == InitNM /\ [][NextNM]_vars

----------------------------------------------------------------------------
(* Claims about NativeMessaging, checked under SpecNM                      *)

\* The events emitted so far, 'disconnect' aside.
Decoded == SelectSeq(emitted, LAMBDA e : e.type # "disconnect")

\* C11: when every frame written is sendMessage's encoding of a message, then
\* however the bytes are cut into chunks the reader emits the original
\* messages, in order, each once: what has been emitted is a prefix of them,
\* the bytes of the others are exactly what the stream still holds or has yet
\* to receive (a header read ahead of its payload is put back, no byte is
\* dropped or read twice), and all have been emitted once all bytes arrived.
C11_FrameRoundTrip ==
  (\A i \in DOMAIN frames : frames[i].message # NotJson)
    => /\ Len(Decoded) <= Len(frames)
       /\ \A i \in DOMAIN Decoded : Decoded[i] = MessageEvent(frames[i].message)
       /\ BytesOf(SubSeq(frames, Len(Decoded) + 1, Len(frames)))
            = stdin.buffer \o wire
       /\ wire = << >> => Len(Decoded) = Len(frames)

\* C11 witness: the first of three messages has been emitted and the stream
\* holds the header of the second, "é", with the first byte of its payload.
C11_Witness ==
  /\ Len(frames) = 3
  /\ \A i \in DOMAIN frames : frames[i].message # NotJson
  /\ frames[2].message = JsonString(<<233>>)
  /\ Len(emitted) = 1
  /\ stdin.buffer = <<4, 0, 0, 0, 34>>
  /\ wire # << >>

\* C12: a complete frame whose payload is not JSON, a frame of length 0
\* included, is reported as an 'error' event and consumed, and every frame
\* after it is still decoded: once all bytes have arrived there is one event
\* per frame, in order, 'error' for the frames that are not JSON and 'message'
\* for the others; the end of input is reported as 'disconnect'.
C12_ErrorFrameSkipped ==
  wire = << >> =>
    /\ Len(Decoded) = Len(frames)
    /\ \A i \in DOMAIN Decoded :
         Decoded[i] = IF frames[i].message = NotJson THEN ErrorEvent
                      ELSE MessageEvent(frames[i].message)
    /\ stdin.ended => emitted = Append(Decoded, DisconnectEvent)

----------------------------------------------------------------------------
(* Further claims about the orchestrator, checked under Spec               *)

\* C13: one native-messaging frame that is not JSON is recoverable: the
\* 'error' it raises leaves a daemon that was not in ERROR out of ERROR, and
\* leaves everything a later request is validated and handled with (daemon
\* state, keystore, session, rate limiter) as it was.
C13_ProtocolErrorRecoverable ==
  [][ (NativeError /\ stateManager.currentState # ERROR)
      => /\ stateManager'.currentState # ERROR
         /\ stateManager' = stateManager
         /\ keystore' = keystore
         /\ sessionManager' = sessionManager
         /\ rateLimiter' = rateLimiter ]_vars

----------------------------------------------------------------------------
(* IPCClient: request/response correlation over the local socket           *)

MaxCalls == 3

MaxConnects == 2

MaxData == 2

\* A send() call as observed: how often its promise's resolve and reject were
\* invoked, the first settlement, and how often a message carrying its id was
\* emitted as an unsolicited 'message'.
Call(waitForResponse, outcome) ==
  [waitForResponse |-> waitForResponse, outcome |-> outcome,
   resolves |-> 0, rejects |-> 0, unsolicited |-> 0]

\* resolve(message) of the promise of call id
Resolve(cs, id) ==
  [cs EXCEPT ![id].resolves = @ + 1,
             ![id].outcome = IF @ = "pending" THEN "resolved" ELSE @]

\* reject(new Error(reason)) of the promise of call id
Reject(cs, id, reason) ==
  [cs EXCEPT ![id].rejects = @ + 1,
             ![id].outcome = IF @ = "pending" THEN reason ELSE @]

\* The client and its calls after a handler ran.
IPC(client, cs) == [client |-> client, calls |-> cs]

\* send(message, waitForResponse); the message's id is new (crypto.randomUUID)
send(client, cs, waitForResponse) ==
  LET id == Len(cs) + 1 IN
  IF ~client.connected \/ client.socket = 0
  THEN IPC(client, Append(cs, Call(waitForResponse, "Not connected to daemon")))
  ELSE IF waitForResponse
  THEN IPC([client EXCEPT !.pendingResponses = @ \cup {id}],
           Append(cs, Call(TRUE, "pending")))
  ELSE IPC(client, Append(cs, Call(FALSE, "none")))

\* The timeout callback without its test of the pending map.
onSendTimeout_Unconditional(client, cs, id) ==
  IPC([client EXCEPT !.pendingResponses = @ \ {id}],
      Reject(cs, id, "IPC request timeout"))

\* The callback of the 5-second timer send() sets
onSendTimeout(client, cs, id) ==
  IF id \in client.pendingResponses
  THEN IPC([client EXCEPT !.pendingResponses = @ \ {id}],
           Reject(cs, id, "IPC request timeout"))
  ELSE IPC(client, cs)

\* A chunk that is not one JSON message (two messages in one chunk, or a part
\* of one): IPCMessage.fromJSON throws and the handler's catch swallows it
Unparsable == 0 - 1

\* socket 'data': a chunk with one message carrying this id (id 0: a message
\* the daemon originated), or an unparsable chunk
onSocketData(client, cs, id) ==
  IF id \in client.pendingResponses
  THEN IPC([client EXCEPT !.pendingResponses = @ \ {id}], Resolve(cs, id))
  ELSE IF id \in DOMAIN cs
  THEN IPC(client, [cs EXCEPT ![id].unsolicited = @ + 1])
  ELSE IPC(client, cs)

RECURSIVE RejectAll(_, _, _)
RejectAll(cs, ids, reason) ==
  IF ids = {} THEN cs
  ELSE LET id == CHOOSE i \in ids : TRUE
       IN RejectAll(Reject(cs, id, reason), ids \ {id}, reason)

\* socket 'close'
onSocketClose(client, cs) ==
  IPC([client EXCEPT !.connected = FALSE, !.pendingResponses = {}],
      RejectAll(cs, client.pendingResponses, "Connection closed"))

\* disconnect()
disconnect(client) ==
  IF client.socket # 0 THEN [client EXCEPT !.socket = 0, !.connected = FALSE]
  ELSE client

IPCBecomes(r) == ipcClient' = r.client /\ calls' = r.calls

ClientRuns == ~ipcNet.crashed

\* connect(): a socket is created and its listeners are registered
ClientConnect ==
  /\ ClientRuns
  /\ ipcNet.created < MaxConnects
  /\ ~ipcClient.connected
  /\ ipcClient.socket \notin ipcNet.connecting
  /\ LET socket == ipcNet.created + 1 IN
     /\ ipcClient' = [ipcClient EXCEPT !.socket = socket]
     /\ ipcNet' = [ipcNet EXCEPT !.created = socket,
                                 !.connecting = @ \cup {socket},
                                 !.open = @ \cup {socket}]
  /\ UNCHANGED calls
  /\ UNCHANGED <<coreVars, nmVars, sessVars, vaultVars, cryptoVars>>

\* socket 'connect': cleanup() removes the socket's 'connect' and 'error'
\* listeners, then connected becomes true
SocketConnected ==
  /\ ClientRuns
  /\ \E socket \in ipcNet.connecting :
       /\ ipcClient' = [ipcClient EXCEPT !.connected = TRUE]
       /\ ipcNet' = [ipcNet EXCEPT !.connecting = @ \ {socket},
                                   !.established = @ \cup {socket}]
  /\ UNCHANGED calls
  /\ UNCHANGED <<coreVars, nmVars, sessVars, vaultVars, cryptoVars>>

\* socket 'error' before 'connect', or the 5-second connection timeout:
\* connect() rejects; the socket's 'close' is still to come
SocketConnectFailed ==
  /\ ClientRuns
  /\ \E socket \in ipcNet.connecting :
       /\ ipcClient' = [ipcClient EXCEPT !.connected = FALSE]
       /\ ipcNet' = [ipcNet EXCEPT !.connecting = @ \ {socket}]
  /\ UNCHANGED calls
  /\ UNCHANGED <<coreVars, nmVars, sessVars, vaultVars, cryptoVars>>

\* disconnect(): socket.end(); 'close' follows later
ClientDisconnect ==
  /\ ClientRuns
  /\ ipcClient.socket # 0
  /\ ipcClient' = disconnect(ipcClient)
  /\ UNCHANGED <<ipcNet, calls>>
  /\ UNCHANGED <<coreVars, nmVars, sessVars, vaultVars, cryptoVars>>

\* send(message, waitForResponse) with a fresh message
ClientSend ==
  /\ ClientRuns
  /\ Len(calls) < MaxCalls
  /\ \E waitForResponse \in BOOLEAN :
       LET r == send(ipcClient, calls, waitForResponse) IN
       /\ IPCBecomes(r)
       /\ ipcNet' = IF Len(calls) + 1 \in r.client.pendingResponses
                    THEN [ipcNet EXCEPT !.timers = @ \cup {Len(calls) + 1}]
                    ELSE ipcNet
  /\ UNCHANGED <<coreVars, nmVars, sessVars, vaultVars, cryptoVars>>

\* The 5-second timer of a correlated send fires
SendTimeout ==
  /\ ClientRuns
  /\ \E id \in ipcNet.timers :
       /\ IPCBecomes(onSendTimeout(ipcClient, calls, id))
       /\ ipcNet' = [ipcNet EXCEPT !.timers = @ \ {id}]
  /\ UNCHANGED <<coreVars, nmVars, sessVars, vaultVars, cryptoVars>>

\* A chunk arrives on an established socket: one message carrying the id of
\* an earlier send, one the daemon originated (id 0), or an unparsable chunk
SocketData ==
  /\ ClientRuns
  /\ ipcNet.delivered < MaxData
  /\ ipcNet.established # {}
  /\ \E id \in Unparsable..Len(calls) :
       /\ IPCBecomes(onSocketData(ipcClient, calls, id))
       /\ ipcNet' = [ipcNet EXCEPT !.delivered = @ + 1, !.lastData = id]
  /\ UNCHANGED <<coreVars, nmVars, sessVars, vaultVars, cryptoVars>>

\* socket 'close'
SocketClose ==
  /\ ClientRuns
  /\ \E socket \in ipcNet.open \ ipcNet.connecting :
       /\ IPCBecomes(onSocketClose(ipcClient, calls))
       /\ ipcNet' = [ipcNet EXCEPT !.open = @ \ {socket},
                                   !.established = @ \ {socket}]
  /\ UNCHANGED <<coreVars, nmVars, sessVars, vaultVars, cryptoVars>>

\* socket 'error' on an established socket (ECONNRESET, EPIPE): its 'error'
\* listener is gone, so emit throws, 'close' is not emitted and the exception
\* ends the process
SocketError ==
  /\ ClientRuns
  /\ \E socket \in ipcNet.established :
       ipcNet' = [ipcNet EXCEPT !.open = @ \ {socket},
                                !.established = @ \ {socket},
                                !.crashed = TRUE]
  /\ UNCHANGED <<ipcClient, calls>>
  /\ UNCHANGED <<coreVars, nmVars, sessVars, vaultVars, cryptoVars>>

InitIPC == CoreIdle /\ NMIdle /\ IPCIdle /\ SessIdle /\ VaultIdle /\ CryptoIdle

NextIPC ==
  \/ ClientConnect \/ SocketConnected \/ SocketConnectFailed \/ ClientDisconnect
  \/ ClientSend \/ SendTimeout \/ SocketData \/ SocketClose \/ SocketError

SpecIPC == InitIPC /\ [][NextIPC]_vars

----------------------------------------------------------------------------
(* Claims about IPCClient, checked under SpecIPC                           *)

\* What holds of every send() call in every state, for C14.
SettledOnce ==
  \A id \in DOMAIN calls :
    LET c == calls[id] IN
    /\ c.resolves + c.rejects <= 1
    /\ c.outcome = "resolved" <=> c.resolves = 1
    /\ c.outcome \in {"IPC request timeout", "Connection closed"} <=> c.rejects = 1
    /\ c.outcome = "pending" <=> id \in ipcClient.pendingResponses
    /\ c.outcome = "pending" => c.waitForResponse /\ id \in ipcNet.timers
    /\ c.unsolicited > 0 => c.outcome # "pending"
    /\ ~c.waitForResponse =>
         c.outcome \in {"none", "Not connected to daemon"} /\ id \notin ipcNet.timers

\* C14: every correlated send is settled once, by the first of: a message with
\* its id (resolve), its 5-second timeout (reject), socket close (reject).  A
\* call not yet settled is in the pending map with its timer armed; a settled
\* one is not in the map, so a message with its id that arrives later is
\* emitted as an unsolicited 'message' and changes no call; a message settles
\* only the call with its id; fire-and-forget sends create no pending entry.
C14_Correlation ==
  [][ /\ SettledOnce'
      /\ ipcNet'.delivered # ipcNet.delivered =>
           LET id == ipcNet'.lastData IN
           /\ \A other \in DOMAIN calls \ {id} : calls'[other] = calls[other]
           /\ id \in DOMAIN calls =>
                IF calls[id].outcome = "pending"
                THEN calls'[id] = [calls[id] EXCEPT !.outcome = "resolved",
                                                     !.resolves = 1]
                ELSE calls'[id] = [calls[id] EXCEPT !.unsolicited = @ + 1]
      /\ ipcNet'.timers # ipcNet.timers /\ calls' = calls /\ Len(calls) > 0 =>
           \A id \in ipcNet.timers \ ipcNet'.timers : calls[id].outcome # "pending"
    ]_vars

\* C14 witness: the first call timed out and its response, arriving late, was
\* emitted as a 'message'; the second was resolved by its response; the third
\* was fire-and-forget.
C14_Witness ==
  /\ Len(calls) = 3
  /\ calls[1].outcome = "IPC request timeout" /\ calls[1].unsolicited = 1
  /\ calls[2].outcome = "resolved"
  /\ calls[3].outcome = "none"
  /\ ipcClient.pendingResponses = {}

\* C15: when a socket of the client closes, every correlated call outstanding
\* at that moment is rejected with ConnectionClosed and the pending map is
\* empty afterwards; a send attempted while not connected fails at once and
\* registers nothing.
C15_CloseRejectsAll ==
  [][ /\ ipcNet'.open # ipcNet.open /\ ipcNet'.created = ipcNet.created =>
           /\ \A id \in ipcClient.pendingResponses :
                calls'[id].outcome = "Connection closed"
           /\ ipcClient'.pendingResponses = {}
      /\ Len(calls') > Len(calls) /\ ~ipcClient.connected =>
           /\ calls'[Len(calls')].outcome = "Not connected to daemon"
           /\ ipcClient' = ipcClient
           /\ ipcNet' = ipcNet
    ]_vars

----------------------------------------------------------------------------
(* Claims about ordering and synchronisation, checked under Spec           *)

\* C16: requests of one connection take effect in arrival order: when an
\* unlock_keystore request is followed on the IPC connection by a
\* lock_keystore request, the unlock's effects are not applied after the
\* lock's, so the keystore is locked and the daemon is not UNLOCKED once the
\* unlock has run to its end.
C16_ArrivalOrder ==
  [][ \A p \in pending \ pending' :
        (/\ p.kind = "derive" /\ p.transport = "ipc"
         /\ p.id < nextId
         /\ lastValidation.request.type = "lock_keystore"
         /\ lastValidation.code = Passed)
          => /\ keystore'.isLocked
             /\ stateManager'.currentState # UNLOCKED
             /\ ~sessionManager'.isUnlocked ]_vars

\* C17: in every quiescent state of the running daemon (no handler suspended)
\* the session is unlocked exactly when the daemon state is UNLOCKED, and the
\* daemon state is UNLOCKED exactly when the keystore is unlocked.
C17_Synchronized ==
  (phase = "running" /\ pending = {})
    => /\ sessionManager.isUnlocked <=> stateManager.currentState = UNLOCKED
       /\ stateManager.currentState = UNLOCKED <=> ~keystore.isLocked

\* C18: in the daemon no timer that locks the session is ever armed, and an
\* unlocked session becomes locked only in a step that also leaves the
\* keystore locked (a lock request or the keystore's lock event) or that
\* begins the shutdown.
C18_NoAutoLock ==
  [][ /\ ~sessionManager'.unlockTimer
      /\ (sessionManager.isUnlocked /\ ~sessionManager'.isUnlocked)
           => (keystore'.isLocked \/ phase' # phase) ]_vars

----------------------------------------------------------------------------
(* SessionManager with auto-lock enabled                                   *)
(*                                                                         *)
(* timedSession holds the object's fields and, in pending and created, the *)
(* timers of the runtime: setTimeout adds a timer under a fresh handle,    *)
(* clearTimeout removes the timer of a handle, and a pending timer may     *)
(* fire at any later step (elapsed time is not measured). null is 0.       *)

MaxTimers == 6
MaxSessions == 2
IdleTimeout == 60000

\* The timeouts the SessionManager is constructed with; 900000 is the default.
UnlockTimeouts == {900000, 30000}

AccountLists == {{}, {"0xa"}}

AutoLock_new(unlockTimeout) ==
  [ isUnlocked     |-> FALSE,
    accounts       |-> {},
    activeSessions |-> 0,
    unlockTimer    |-> 0,
    unlockTimeout  |-> unlockTimeout,
    pending        |-> {},
    created        |-> 0 ]

clearUnlockTimer(s) ==
  IF s.unlockTimer # 0
  THEN [s EXCEPT !.pending = {t \in @ : t.handle # s.unlockTimer},
                 !.unlockTimer = 0]
  ELSE s

\* resetUnlockTimer without its first statement
resetUnlockTimer_NoClear(s, timeout) ==
  LET timeoutMs == IF timeout # 0 THEN timeout ELSE s.unlockTimeout
      h == s.created + 1
  IN [s EXCEPT !.pending = @ \cup {[handle |-> h, delay |-> timeoutMs]},
               !.created = h,
               !.unlockTimer = h]

resetUnlockTimer(s, timeout) ==
  LET c == clearUnlockTimer(s)
      timeoutMs == IF timeout # 0 THEN timeout ELSE c.unlockTimeout
      h == c.created + 1
  IN [c EXCEPT !.pending = @ \cup {[handle |-> h, delay |-> timeoutMs]},
               !.created = h,
               !.unlockTimer = h]

AutoLock_unlock(s, accounts) ==
  resetUnlockTimer([s EXCEPT !.isUnlocked = TRUE, !.accounts = accounts], 0)

AutoLock_lock(s) ==
  clearUnlockTimer([s EXCEPT !.isUnlocked = FALSE, !.accounts = {}])

AutoLock_addSession(s) ==
  resetUnlockTimer([s EXCEPT !.activeSessions = @ + 1], 0)

AutoLock_removeSession(s) ==
  LET d == IF s.activeSessions > 0
           THEN [s EXCEPT !.activeSessions = @ - 1]
           ELSE s
  IN IF d.activeSessions = 0 THEN resetUnlockTimer(d, IdleTimeout) ELSE d

AutoLock_destroy(s) == clearUnlockTimer(s)

\* The callback of a timer that has expired: the runtime drops the timer and
\* calls lock().
timerCallback(s, t) == AutoLock_lock([s EXCEPT !.pending = @ \ {t}])

SessBecomes(s) ==
  /\ timedSession' = s
  /\ UNCHANGED <<coreVars, nmVars, ipcVars, vaultVars, cryptoVars>>

SessUnlock ==
  /\ timedSession.created < MaxTimers
  /\ \E accounts \in AccountLists :
       SessBecomes(AutoLock_unlock(timedSession, accounts))

SessLock == SessBecomes(AutoLock_lock(timedSession))

SessAddSession ==
  /\ timedSession.created < MaxTimers
  /\ timedSession.activeSessions < MaxSessions
  /\ SessBecomes(AutoLock_addSession(timedSession))

SessRemoveSession ==
  /\ timedSession.created < MaxTimers
  /\ SessBecomes(AutoLock_removeSession(timedSession))

SessDestroy == SessBecomes(AutoLock_destroy(timedSession))

SessTimerFires ==
  \E t \in timedSession.pending : SessBecomes(timerCallback(timedSession, t))

InitSess ==
  /\ CoreIdle
  /\ NMIdle
  /\ IPCIdle
  /\ VaultIdle
  /\ CryptoIdle
  /\ \E unlockTimeout \in UnlockTimeouts :
       timedSession = AutoLock_new(unlockTimeout)

NextSess ==
  \/ SessUnlock \/ SessLock \/ SessAddSession \/ SessRemoveSession
  \/ SessDestroy \/ SessTimerFires

SpecSess == InitSess /\ [][NextSess]_vars

PendingDelays == {t.delay : t \in timedSession.pending}

\* C19: with a numeric timeout, at most one timer is pending at any time;
\* unlock() and addSession() leave exactly one timer pending, armed with the
\* configured timeout; a removeSession() that leaves activeSessions at 0
\* leaves exactly one timer pending, armed with 60000 ms; lock() leaves none
\* pending; and when the pending timer fires the session is locked with no
\* accounts.
C19_TimerDiscipline ==
  [][ /\ Cardinality(timedSession'.pending) <= 1
      /\ (SessUnlock \/ SessAddSession)
           => /\ Cardinality(timedSession'.pending) = 1
              /\ PendingDelays' = {timedSession.unlockTimeout}
      /\ (SessRemoveSession /\ timedSession'.activeSessions = 0)
           => /\ Cardinality(timedSession'.pending) = 1
              /\ PendingDelays' = {IdleTimeout}
      /\ SessLock => timedSession'.pending = {}
      /\ SessTimerFires
           => /\ ~timedSession'.isUnlocked
              /\ timedSession'.accounts = {} ]_vars

\* An unlocked session whose last peer has gone, after the timer was re-armed
\* several times: only the idle timer is pending.
C19_Witness ==
  /\ timedSession.isUnlocked
  /\ timedSession.accounts = {"0xa"}
  /\ timedSession.activeSessions = 0
  /\ timedSession.created >= 3
  /\ PendingDelays = {IdleTimeout}

----------------------------------------------------------------------------
(* Keystore: wallets, accounts and the keystore directory                  *)
(*                                                                         *)
(* vault is a Keystore called directly, one call at a time.  An address is *)
(* a record: the wallet (mnemonic) it belongs to, its derivation index and *)
(* the form of its text, "checksum" as ethers returns it or "lower" after  *)
(* toLowerCase.  dir is the keystore directory: every file has the name    *)
(* _saveWalletData gave it (the time of the write) and as content the      *)
(* password it was encrypted under and a copy of the wallet data as it was *)
(* when saved.  undefined and null are 0 for a number (nextAccountIndex,   *)
(* mnemonic, keystorePath), Undefined for an index, "undefined" and "null" *)
(* for a label and a path; visible is TRUE unless the field is false.      *)

MaxWallets == 2
MaxIndex == 2
MaxFiles == 3

ValidPasswords == {"password123", "correct horse"}
ShortPasswords == {"short"}

Absent == [absent |-> TRUE]

Undefined == 0 - 1

Address(m, i) == [wallet |-> m, index |-> i, form |-> "checksum"]

toLowerCase(a) == [a EXCEPT !.form = "lower"]

NoAddress == [wallet |-> 0, index |-> 0, form |-> "none"]

\* The addresses a caller passes: the first wallet's primary account in both
\* forms, its second account, and the primary account of the last wallet.
AddressInputs ==
  { Address(1, 0), toLowerCase(Address(1, 0)), Address(1, 1),
    toLowerCase(Address(MaxWallets, 0)) }

\* `m/44'/60'/0'/0/${index}`
DerivationPath(i) ==
  CASE i = 0 -> "m/44'/60'/0'/0/0"
    [] i = 1 -> "m/44'/60'/0'/0/1"
    [] i = 2 -> "m/44'/60'/0'/0/2"
    [] OTHER -> "m/44'/60'/0'/0/3"

\* `Account ${n}`
AccountLabel(n) ==
  CASE n = 1 -> "Account 1"
    [] n = 2 -> "Account 2"
    [] n = 3 -> "Account 3"
    [] OTHER -> "Account 4"

CustomLabels == {"savings"}

AccountRecord(m, i) ==
  [ address |-> Address(m, i), path |-> DerivationPath(i), index |-> i,
    visible |-> TRUE, label |-> AccountLabel(i + 1) ]

\* What importWallet is given: a mnemonic phrase, the private key of an
\* account, or text that is neither.
SecretData ==
  { [kind |-> "mnemonic", wallet |-> MaxWallets, index |-> 0],
    [kind |-> "privateKey", wallet |-> 1, index |-> 1],
    [kind |-> "invalid", wallet |-> 0, index |-> 0] }

KeystoreCall(op, password, address, result) ==
  [op |-> op, password |-> password, address |-> address, result |-> result]

\* Map.set(key, ...) on the keys of this.wallets, in insertion order
MapSet(keys, key) ==
  IF \E i \in DOMAIN keys : keys[i] = key THEN keys ELSE Append(keys, key)

\* What fs.writeFile does: it writes the file, or rejects with an I/O error.
FsOutcomes == {"ok", "EIO"}

\* Bound on the writes that fail in one behaviour of SpecVaultIO (the field
\* faults counts those still to come; none fails under SpecVault).
MaxWriteFailures == 1

\* A plausible slip: the file is written and this.encryptedData is left as it was.
_saveWalletData_StaleData(k, walletData, password, fs) ==
  LET filename == k.written + 1
  IN IF fs # "ok" THEN [k EXCEPT !.keystorePath = filename, !.faults = @ - 1]
     ELSE [k EXCEPT !.keystorePath = filename,
                    !.dir = @ \cup {[name |-> filename,
                                     content |-> [password |-> password,
                                                  data |-> walletData]]},
                    !.written = filename]

\* Writes a new file, named after the time of the write.  keystorePath is
\* assigned before the write, encryptedData after it.
_saveWalletData(k, walletData, password, fs) ==
  LET keystoreData == [password |-> password, data |-> walletData]
      filename == k.written + 1
  IN IF fs # "ok" THEN [k EXCEPT !.keystorePath = filename, !.faults = @ - 1]
     ELSE [k EXCEPT !.keystorePath = filename,
                    !.dir = @ \cup {[name |-> filename, content |-> keystoreData]},
                    !.written = filename,
                    !.encryptedData = keystoreData]

\* CryptoUtils.decrypt then JSON.parse; Absent when it throws 'Invalid password'
decrypt(encryptedData, password) ==
  IF encryptedData.password = password THEN encryptedData.data ELSE Absent

\* m: the wallet ethers.Wallet.createRandom() returns
Keystore_createWallet(k, password, m, fs) ==
  IF password \in ShortPasswords
  THEN [k EXCEPT !.lastCall = KeystoreCall("createWallet", password, NoAddress,
                                           "Password must be at least 8 characters")]
  ELSE LET walletData == [ mnemonic |-> m, nextAccountIndex |-> 1,
                           accounts |-> <<AccountRecord(m, 0)>> ]
           saved == _saveWalletData(k, walletData, password, fs)
       IN IF fs # "ok"
          THEN [saved EXCEPT
                  !.generated = m,
                  !.lastCall = KeystoreCall("createWallet", password, NoAddress, fs)]
          ELSE [saved EXCEPT
                  !.wallets = MapSet(@, toLowerCase(Address(m, 0))),
                  !.isLocked = FALSE,
                  !.generated = m,
                  !.lastCall = KeystoreCall("createWallet", password, Address(m, 0), "ok")]

Keystore_importWallet(k, secretData, password, fs) ==
  LET called(address, result) == KeystoreCall("importWallet", password, address, result)
  IN IF password \in ShortPasswords
     THEN [k EXCEPT !.lastCall = called(NoAddress, "Password must be at least 8 characters")]
     ELSE IF secretData.kind = "invalid"
     THEN [k EXCEPT !.lastCall = called(NoAddress, "Invalid mnemonic phrase or private key")]
     ELSE LET isMnemonic == secretData.kind = "mnemonic"
              address == Address(secretData.wallet, secretData.index)
              walletData ==
                [ mnemonic |-> IF isMnemonic THEN secretData.wallet ELSE 0,
                  nextAccountIndex |-> 0,
                  accounts |-> << [ address |-> address,
                                    path |-> IF isMnemonic THEN DerivationPath(0)
                                             ELSE "null",
                                    index |-> Undefined,
                                    visible |-> TRUE,
                                    label |-> "undefined" ] >> ]
              saved == _saveWalletData(k, walletData, password, fs)
          IN IF fs # "ok" THEN [saved EXCEPT !.lastCall = called(NoAddress, fs)]
             ELSE [saved EXCEPT
                     !.wallets = MapSet(@, toLowerCase(address)),
                     !.isLocked = FALSE,
                     !.lastCall = called(address, "ok")]

\* unlock that clears the account map before it decrypts
Keystore_unlock_ClearFirst(k, password) ==
  LET called(result) == KeystoreCall("unlock", password, NoAddress, result)
  IN IF k.encryptedData = Absent
     THEN [k EXCEPT !.lastCall = called("No keystore found")]
     ELSE LET walletData == decrypt(k.encryptedData, password)
          IN IF walletData = Absent
             THEN [k EXCEPT !.wallets = << >>, !.lastCall = called("false")]
             ELSE [k EXCEPT
                     !.walletData = walletData,
                     !.wallets = [i \in DOMAIN walletData.accounts |->
                                    toLowerCase(walletData.accounts[i].address)],
                     !.isLocked = FALSE,
                     !.lastCall = called("true")]

Keystore_unlock(k, password) ==
  LET called(result) == KeystoreCall("unlock", password, NoAddress, result)
  IN IF k.encryptedData = Absent
     THEN [k EXCEPT !.lastCall = called("No keystore found")]
     ELSE LET walletData == decrypt(k.encryptedData, password)
          IN IF walletData = Absent
             THEN [k EXCEPT !.lastCall = called("false")]
             ELSE [k EXCEPT
                     !.walletData = walletData,
                     !.wallets = [i \in DOMAIN walletData.accounts |->
                                    toLowerCase(walletData.accounts[i].address)],
                     !.isLocked = FALSE,
                     !.lastCall = called("true")]

lock(k) == [k EXCEPT !.wallets = << >>, !.walletData = Absent, !.isLocked = TRUE]

Keystore_lockWallets(k) ==
  [lock(k) EXCEPT !.lastCall = KeystoreCall("lock", "", NoAddress, "ok")]

\* accounts.find(acc => acc.address.toLowerCase() === address.toLowerCase()):
\* the position of the record, 0 when there is none
find(accounts, address) ==
  LET hits == {i \in DOMAIN accounts :
                 toLowerCase(accounts[i].address) = toLowerCase(address)}
  IN IF hits = {} THEN 0 ELSE CHOOSE i \in hits : \A j \in hits : i <= j

Keystore_getAccounts(k, includeHidden) ==
  IF k.isLocked THEN << >>
  ELSE IF includeHidden \/ k.walletData = Absent THEN k.wallets
  ELSE LET shown(address) ==
             LET i == find(k.walletData.accounts, address)
             IN i = 0 \/ k.walletData.accounts[i].visible
       IN SelectSeq(k.wallets, shown)

\* sign looking the address up as given
sign_ExactKey(k, address) ==
  LET result == IF k.isLocked THEN "Keystore is locked"
                ELSE IF \E i \in DOMAIN k.wallets : k.wallets[i] = address
                THEN "signature"
                ELSE "Account not found"
  IN [k EXCEPT !.lastCall = KeystoreCall("sign", "", address, result)]

\* signTransaction and signMessage up to wallet.sign...: the result is the
\* signature of the wallet stored under the address, or the error thrown
sign(k, address) ==
  LET result == IF k.isLocked THEN "Keystore is locked"
                ELSE IF \E i \in DOMAIN k.wallets : k.wallets[i] = toLowerCase(address)
                THEN "signature"
                ELSE "Account not found"
  IN [k EXCEPT !.lastCall = KeystoreCall("sign", "", address, result)]

\* this.walletData is changed in place before the file is written.
Keystore_createNextAccount(k, password, fs) ==
  LET called(address, result) ==
        KeystoreCall("createNextAccount", password, address, result)
  IN IF k.isLocked
     THEN [k EXCEPT !.lastCall = called(NoAddress, "Keystore is locked")]
     ELSE IF k.walletData = Absent \/ k.walletData.mnemonic = 0
     THEN [k EXCEPT !.lastCall = called(NoAddress, "No mnemonic found")]
     ELSE LET nextIndex == IF k.walletData.nextAccountIndex = 0 THEN 1
                           ELSE k.walletData.nextAccountIndex
              m == k.walletData.mnemonic
              walletData == [k.walletData EXCEPT
                               !.accounts = Append(@, AccountRecord(m, nextIndex)),
                               !.nextAccountIndex = nextIndex + 1]
              saved == [_saveWalletData(k, walletData, password, fs) EXCEPT
                          !.walletData = walletData]
          IN IF fs # "ok" THEN [saved EXCEPT !.lastCall = called(NoAddress, fs)]
             ELSE [saved EXCEPT
                     !.wallets = MapSet(@, toLowerCase(Address(m, nextIndex))),
                     !.lastCall = called(Address(m, nextIndex), "ok")]

_setAccountVisibility(k, address, visible, password, fs) ==
  LET op == IF visible THEN "showAccount" ELSE "hideAccount"
      called(result) == KeystoreCall(op, password, address, result)
  IN IF k.isLocked
     THEN [k EXCEPT !.lastCall = called("Keystore is locked")]
     ELSE IF k.walletData = Absent
     THEN [k EXCEPT !.lastCall = called("TypeError")]
     ELSE LET i == find(k.walletData.accounts, address)
          IN IF i = 0
             THEN [k EXCEPT !.lastCall = called("Account not found")]
             ELSE IF k.walletData.accounts[i].index = 0 /\ ~visible
             THEN [k EXCEPT !.lastCall = called("Cannot hide the primary account")]
             ELSE LET walletData == [k.walletData EXCEPT
                                       !.accounts[i].visible = visible]
                  IN [_saveWalletData(k, walletData, password, fs) EXCEPT
                        !.walletData = walletData,
                        !.lastCall = called(IF fs # "ok" THEN fs ELSE "true")]

hideAccount(k, address, password, fs) ==
  _setAccountVisibility(k, address, FALSE, password, fs)

showAccount(k, address, password, fs) ==
  _setAccountVisibility(k, address, TRUE, password, fs)

setAccountLabel(k, address, label, password, fs) ==
  LET called(result) == KeystoreCall("setAccountLabel", password, address, result)
  IN IF k.isLocked
     THEN [k EXCEPT !.lastCall = called("Keystore is locked")]
     ELSE IF k.walletData = Absent
     THEN [k EXCEPT !.lastCall = called("TypeError")]
     ELSE LET i == find(k.walletData.accounts, address)
          IN IF i = 0
             THEN [k EXCEPT !.lastCall = called("Account not found")]
             ELSE LET walletData == [k.walletData EXCEPT !.accounts[i].label = label]
                  IN [_saveWalletData(k, walletData, password, fs) EXCEPT
                        !.walletData = walletData,
                        !.lastCall = called(IF fs # "ok" THEN fs ELSE "true")]

\* load() when readdir lists file first among the .json files
loadFile(k, file) ==
  [k EXCEPT !.keystorePath = file.name, !.encryptedData = file.content]

\* lock(), then fs.unlink of the path, which rejects with ENOENT when the
\* path names no file (a write that failed left it so)
deleteKeystore(k) ==
  LET called(result) == KeystoreCall("deleteKeystore", "", NoAddress, result)
  IN IF k.keystorePath = 0 THEN [lock(k) EXCEPT !.lastCall = called("ok")]
     ELSE IF \A f \in k.dir : f.name # k.keystorePath
     THEN [lock(k) EXCEPT !.lastCall = called("ENOENT")]
     ELSE [lock(k) EXCEPT !.dir = {f \in @ : f.name # k.keystorePath},
                          !.keystorePath = 0,
                          !.encryptedData = Absent,
                          !.lastCall = called("ok")]

\* new Keystore() in a process that finds the directory as k left it
Keystore_new(k) ==
  [ isLocked      |-> TRUE,
    wallets       |-> << >>,
    walletData    |-> Absent,
    encryptedData |-> Absent,
    keystorePath  |-> 0,
    dir           |-> k.dir,
    written       |-> k.written,
    faults        |-> k.faults,
    generated     |-> k.generated,
    lastCall      |-> KeystoreCall("constructor", "", NoAddress, "ok") ]

VaultBecomes(k) ==
  /\ vault' = k
  /\ UNCHANGED <<coreVars, nmVars, ipcVars, sessVars, cryptoVars>>

CanWrite == vault.written < MaxFiles

\* The outcomes of the next write.
Writes == IF vault.faults > 0 THEN FsOutcomes ELSE {"ok"}

VaultCreateWallet ==
  /\ CanWrite
  /\ vault.generated < MaxWallets
  /\ \E password \in ValidPasswords \cup ShortPasswords, fs \in Writes :
       VaultBecomes(Keystore_createWallet(vault, password, vault.generated + 1, fs))

VaultImportWallet ==
  /\ CanWrite
  /\ \E secretData \in SecretData, password \in ValidPasswords \cup ShortPasswords,
        fs \in Writes :
       VaultBecomes(Keystore_importWallet(vault, secretData, password, fs))

VaultUnlock ==
  \E password \in ValidPasswords : VaultBecomes(Keystore_unlock(vault, password))

VaultLock == VaultBecomes(Keystore_lockWallets(vault))

VaultSign ==
  \E address \in AddressInputs : VaultBecomes(sign(vault, address))

VaultCreateNextAccount ==
  /\ CanWrite
  /\ vault.walletData # Absent => vault.walletData.nextAccountIndex <= MaxIndex
  /\ \E password \in ValidPasswords, fs \in Writes :
       VaultBecomes(Keystore_createNextAccount(vault, password, fs))

VaultHideAccount ==
  /\ CanWrite
  /\ \E address \in AddressInputs, password \in ValidPasswords, fs \in Writes :
       VaultBecomes(hideAccount(vault, address, password, fs))

VaultShowAccount ==
  /\ CanWrite
  /\ \E address \in AddressInputs, password \in ValidPasswords, fs \in Writes :
       VaultBecomes(showAccount(vault, address, password, fs))

VaultSetAccountLabel ==
  /\ CanWrite
  /\ \E address \in AddressInputs, label \in CustomLabels, password \in ValidPasswords,
        fs \in Writes :
       VaultBecomes(setAccountLabel(vault, address, label, password, fs))

\* load() on the live object (EnhancedKeystore.reload); nothing happens when
\* the directory holds no file
VaultLoad ==
  /\ vault.dir # {}
  /\ \E file \in vault.dir :
       VaultBecomes([loadFile(vault, file) EXCEPT
                       !.lastCall = KeystoreCall("load", "", NoAddress, "ok")])

VaultDeleteKeystore == VaultBecomes(deleteKeystore(vault))

\* A new process: new Keystore() and init()
VaultRestart ==
  \/ /\ vault.dir = {}
     /\ VaultBecomes(Keystore_new(vault))
  \/ \E file \in vault.dir : VaultBecomes(loadFile(Keystore_new(vault), file))

InitVault == CoreIdle /\ NMIdle /\ IPCIdle /\ SessIdle /\ VaultIdle /\ CryptoIdle

NextVault ==
  \/ VaultCreateWallet \/ VaultImportWallet \/ VaultUnlock \/ VaultLock
  \/ VaultSign \/ VaultCreateNextAccount \/ VaultHideAccount
  \/ VaultShowAccount \/ VaultSetAccountLabel \/ VaultLoad
  \/ VaultDeleteKeystore \/ VaultRestart

SpecVault == InitVault /\ [][NextVault]_vars

\* SpecVaultIO: one wallet, created, unlocked and changed on a file system
\* whose writes can fail.
InitVaultIO ==
  /\ CoreIdle /\ NMIdle /\ IPCIdle /\ SessIdle /\ CryptoIdle
  /\ vault = Keystore_new([dir |-> {}, written |-> 0, generated |-> 0,
                           faults |-> MaxWriteFailures])

NextVaultIO ==
  \/ VaultCreateWallet \/ VaultUnlock \/ VaultLock
  \/ VaultCreateNextAccount \/ VaultHideAccount \/ VaultShowAccount
  \/ VaultSetAccountLabel \/ VaultLoad \/ VaultDeleteKeystore

SpecVaultIO == InitVaultIO /\ [][NextVaultIO]_vars

\* The account records of the wallet the keystore holds: those in memory,
\* and before any unlock those of the keystore file.
Records(k) ==
  LET data == IF k.walletData # Absent THEN k.walletData
              ELSE IF k.encryptedData # Absent THEN k.encryptedData.data
              ELSE [accounts |-> << >>]
  IN {data.accounts[i] : i \in DOMAIN data.accounts}

Listed(k, includeHidden) ==
  LET accounts == Keystore_getAccounts(k, includeHidden)
  IN {accounts[i] : i \in DOMAIN accounts}

\* C20: after every call, a locked keystore lists no accounts; an unlocked one
\* lists with includeHidden the address of every account record and by
\* default the addresses of the visible records (addresses compared without
\* regard to case); a successful hideAccount leaves its address out of the
\* default listing and a successful showAccount leaves it in; and the unlock
\* that follows createWallet with the same password leaves getAccounts()
\* equal to the one-element sequence of the address createWallet returned.
C20_AccountListing ==
  [][ /\ vault'.isLocked
           => /\ Keystore_getAccounts(vault', TRUE) = << >>
              /\ Keystore_getAccounts(vault', FALSE) = << >>
      /\ ~vault'.isLocked
           => /\ Listed(vault', TRUE)
                   = {toLowerCase(r.address) : r \in Records(vault')}
              /\ Listed(vault', FALSE)
                   = {toLowerCase(r.address) : r \in {q \in Records(vault') : q.visible}}
      /\ (vault'.lastCall.op = "hideAccount" /\ vault'.lastCall.result = "true")
           => toLowerCase(vault'.lastCall.address) \notin Listed(vault', FALSE)
      /\ (vault'.lastCall.op = "showAccount" /\ vault'.lastCall.result = "true")
           => toLowerCase(vault'.lastCall.address) \in Listed(vault', FALSE)
      /\ (/\ vault.lastCall.op = "createWallet" /\ vault.lastCall.result = "ok"
          /\ vault'.lastCall.op = "unlock"
          /\ vault'.lastCall.password = vault.lastCall.password)
           => Keystore_getAccounts(vault', FALSE) = <<vault.lastCall.address>>
    ]_vars

\* The wallet data of the wallet the keystore holds: that in memory, and
\* before any unlock that of the keystore file.
Held(k) ==
  IF k.walletData # Absent THEN k.walletData
  ELSE IF k.encryptedData # Absent THEN k.encryptedData.data
  ELSE [mnemonic |-> 0, nextAccountIndex |-> 0, accounts |-> << >>]

\* nextAccountIndex, 1 where the wallet data does not carry it
NextIndexOf(data) == IF data.nextAccountIndex = 0 THEN 1 ELSE data.nextAccountIndex

\* C21: a createNextAccount call on an unlocked keystore whose wallet has a
\* mnemonic succeeds, appends exactly one account with index the previous
\* nextAccountIndex, path m/44'/60'/0'/0/{index} and label 'Account {index+1}',
\* and increments nextAccountIndex; on an unlocked keystore whose wallet was
\* imported from a private key it fails with 'No mnemonic found' and changes
\* nothing in memory or in the directory.
C21_CreateNextAccount ==
  [][ (vault'.lastCall.op = "createNextAccount" /\ ~vault.isLocked
       /\ Held(vault).accounts # << >>)
        => LET old == Held(vault)
               i == NextIndexOf(old)
           IN IF old.mnemonic # 0
              THEN /\ vault'.lastCall.result = "ok"
                   /\ vault'.walletData # Absent
                   /\ Len(vault'.walletData.accounts) = Len(old.accounts) + 1
                   /\ SubSeq(vault'.walletData.accounts, 1, Len(old.accounts))
                        = old.accounts
                   /\ LET new == vault'.walletData.accounts[Len(old.accounts) + 1]
                      IN /\ new.index = i
                         /\ new.path = DerivationPath(i)
                         /\ new.label = AccountLabel(i + 1)
                   /\ vault'.walletData.nextAccountIndex = i + 1
              ELSE /\ vault'.lastCall.result = "No mnemonic found"
                   /\ vault' = [vault EXCEPT !.lastCall = vault'.lastCall] ]_vars

\* C22: in the wallet data in memory and in every keystore file the first
\* account is visible, and a hideAccount call on an unlocked keystore for the
\* address of the first account of the wallet it holds fails with 'Cannot
\* hide the primary account', leaving the wallet data and the directory as
\* they were.
C22_PrimaryVisible ==
  [][ /\ vault'.walletData # Absent => vault'.walletData.accounts[1].visible
      /\ \A f \in vault'.dir : f.content.data.accounts[1].visible
      /\ (/\ vault'.lastCall.op = "hideAccount"
          /\ ~vault.isLocked
          /\ Held(vault).accounts # << >>
          /\ toLowerCase(vault'.lastCall.address)
               = toLowerCase(Held(vault).accounts[1].address))
           => /\ vault'.lastCall.result = "Cannot hide the primary account"
              /\ vault'.walletData = vault.walletData
              /\ vault'.dir = vault.dir ]_vars

\* C23: a signing call yields a signature exactly when the keystore is
\* unlocked and the lower-cased address is a key of the account map; it fails
\* with 'Keystore is locked' when locked, whatever the address, and with
\* 'Account not found' when unlocked with an address that is not a key; in
\* both failures nothing of the keystore changes.
C23_SignGuard ==
  [][ vault'.lastCall.op = "sign"
        => LET known == \E i \in DOMAIN vault.wallets :
                          vault.wallets[i] = toLowerCase(vault'.lastCall.address)
               result == vault'.lastCall.result
           IN /\ result = "signature" <=> (~vault.isLocked /\ known)
              /\ vault.isLocked => result = "Keystore is locked"
              /\ (~vault.isLocked /\ ~known) => result = "Account not found"
              /\ vault' = [vault EXCEPT !.lastCall = vault'.lastCall] ]_vars

\* A signature was produced for an address given in checksum form.
C23_Witness ==
  /\ vault.lastCall.op = "sign"
  /\ vault.lastCall.result = "signature"
  /\ vault.lastCall.address.form = "checksum"
  /\ ~vault.isLocked

\* C24: an unlock call with a password other than the one the loaded keystore
\* file was encrypted under returns false and leaves isLocked, the account
\* map and the wallet data as they were, locked or not; with that password it
\* returns true and the account map then holds exactly the lower-cased
\* addresses of the file's accounts, in their order.
C24_UnlockOutcome ==
  [][ (vault'.lastCall.op = "unlock" /\ vault.encryptedData # Absent)
        => IF vault'.lastCall.password # vault.encryptedData.password
           THEN /\ vault'.lastCall.result = "false"
                /\ vault' = [vault EXCEPT !.lastCall = vault'.lastCall]
           ELSE LET accounts == vault.encryptedData.data.accounts
                IN /\ vault'.lastCall.result = "true"
                   /\ ~vault'.isLocked
                   /\ vault'.walletData = vault.encryptedData.data
                   /\ vault'.wallets = [i \in DOMAIN accounts |->
                                          toLowerCase(accounts[i].address)] ]_vars

\* A wrong password was refused while the keystore was unlocked with accounts.
C24_Witness ==
  /\ vault.lastCall.op = "unlock"
  /\ vault.lastCall.result = "false"
  /\ ~vault.isLocked
  /\ Len(vault.wallets) >= 2

\* C25: after a deleteKeystore call the keystore is locked, hasKeystore() is
\* false and the keystore directory holds no file that a load() would find;
\* a call made when the object has no keystore path changes nothing but
\* locks.
C25_DeleteRemoves ==
  [][ vault'.lastCall.op = "deleteKeystore"
        => /\ vault'.isLocked
           /\ vault'.wallets = << >>
           /\ vault'.encryptedData = Absent
           /\ vault'.dir = {}
           /\ vault.keystorePath = 0 => vault'.dir = vault.dir ]_vars

----------------------------------------------------------------------------
(* CryptoUtils                                                             *)
(*                                                                         *)
(* A string is its sequence of UTF-16 code units.  scrypt and the GCM tag  *)
(* are taken as ideal: the derived key is the pair of the password's bytes *)
(* and the salt, and a tag verifies only under the key, iv and ciphertext  *)
(* it was computed for.  The cipher adds a key stream byte by byte.        *)

MaxPlainLen == 2

\* 'a', e-acute (two bytes), the euro sign (three bytes), an unpaired surrogate
PlainUnits == {97, 233, 8364, 55296}

Plaintexts == UNION {[1..n -> PlainUnits] : n \in 0..MaxPlainLen}

\* Passwords of 8 characters that differ in the last one; two of them end in
\* different unpaired surrogates.
CryptoPasswords ==
  {<<112, 97, 115, 115, 119, 111, 114>> \o <<c>> : c \in {100, 233, 55296, 55297}}

Salts == {<<0>>, <<171>>}

Ivs == {<<1>>, <<254>>}

\* No unpaired surrogate (surrogate pairs are not among the strings drawn).
WellFormed(string) ==
  \A i \in DOMAIN string : string[i] < 55296 \/ string[i] >= 57344

RECURSIVE SumBytes(_)
SumBytes(bytes) ==
  IF bytes = << >> THEN 0 ELSE Head(bytes) + SumBytes(Tail(bytes))

\* buffer.toString('hex'): two digits a byte
toHex(bytes) ==
  [i \in 1..(2 * Len(bytes)) |->
     IF i % 2 = 1 THEN bytes[(i + 1) \div 2] \div 16 ELSE bytes[i \div 2] % 16]

\* Buffer.from(digits, 'hex')
fromHex(digits) ==
  [i \in 1..(Len(digits) \div 2) |-> digits[2 * i - 1] * 16 + digits[2 * i]]

\* crypto.scrypt(password, salt, ...): the password is taken as UTF-8
deriveKey(password, salt) == [password |-> Utf8Encode(password), salt |-> salt]

KeyStream(key, iv, i) ==
  (SumBytes(key.password) + SumBytes(key.salt) + SumBytes(iv) + i) % 256

\* cipher.update(data, 'utf8') and cipher.final()
Encipher(key, iv, bytes) ==
  [i \in DOMAIN bytes |-> (bytes[i] + KeyStream(key, iv, i)) % 256]

\* decipher.update(encrypted)
Decipher(key, iv, bytes) ==
  [i \in DOMAIN bytes |-> (bytes[i] + 256 - KeyStream(key, iv, i)) % 256]

\* cipher.getAuthTag()
AuthTag(key, iv, encrypted) == [key |-> key, iv |-> iv, encrypted |-> encrypted]

\* salt and iv: what crypto.randomBytes returned
CryptoUtils_encrypt(data, password, salt, iv) ==
  LET key == deriveKey(password, salt)
      encrypted == Encipher(key, iv, Utf8Encode(data))
  IN [ encrypted |-> toHex(encrypted),
       salt      |-> toHex(salt),
       iv        |-> toHex(iv),
       authTag   |-> AuthTag(key, iv, encrypted) ]

InvalidPassword == [type |-> "throw", message |-> "Invalid password or corrupted data"]

Returned(string) == [type |-> "return", value |-> string]

\* decrypt that does not verify the tag
CryptoUtils_decrypt_Unverified(encryptedData, password) ==
  LET salt == fromHex(encryptedData.salt)
      iv == fromHex(encryptedData.iv)
      encrypted == fromHex(encryptedData.encrypted)
      key == deriveKey(password, salt)
  IN Returned(Utf8Decode(Decipher(key, iv, encrypted)))

CryptoUtils_decrypt(encryptedData, password) ==
  LET salt == fromHex(encryptedData.salt)
      iv == fromHex(encryptedData.iv)
      encrypted == fromHex(encryptedData.encrypted)
      key == deriveKey(password, salt)
  IN IF encryptedData.authTag = AuthTag(key, iv, encrypted)
     THEN Returned(Utf8Decode(Decipher(key, iv, encrypted)))
     ELSE InvalidPassword

CryptoBecomes(c) ==
  /\ cipherRun' = c
  /\ UNCHANGED <<coreVars, nmVars, ipcVars, sessVars, vaultVars>>

CryptoEncrypt ==
  /\ cipherRun.stage = "inputs"
  /\ CryptoBecomes([cipherRun EXCEPT
       !.stage = "encrypted",
       !.encryptedData = CryptoUtils_encrypt(cipherRun.data, cipherRun.password,
                                             cipherRun.salt, cipherRun.iv)])

CryptoDecrypt ==
  /\ cipherRun.stage = "encrypted"
  /\ \E password \in CryptoPasswords :
       CryptoBecomes([cipherRun EXCEPT
         !.stage = "decrypted",
         !.tried = password,
         !.outcome = CryptoUtils_decrypt(cipherRun.encryptedData, password)])

InitCrypto ==
  /\ CoreIdle /\ NMIdle /\ IPCIdle /\ SessIdle /\ VaultIdle
  /\ \E data \in Plaintexts, password \in CryptoPasswords, salt \in Salts, iv \in Ivs :
       cipherRun = [ stage |-> "inputs", data |-> data, password |-> password,
                     salt |-> salt, iv |-> iv, encryptedData |-> Absent,
                     tried |-> << >>, outcome |-> Absent ]

NextCrypto == CryptoEncrypt \/ CryptoDecrypt

SpecCrypto == InitCrypto /\ [][NextCrypto]_vars

\* C26 as stated: decrypting with the password of the encryption returns the
\* plaintext, and decrypting with any other password fails with the
\* invalid-password error.
C26_RoundTrip ==
  cipherRun.stage = "decrypted"
    => IF cipherRun.tried = cipherRun.password
       THEN cipherRun.outcome = Returned(cipherRun.data)
       ELSE cipherRun.outcome = InvalidPassword

\* C26, for strings without unpaired surrogates: decrypting with the password
\* of the encryption returns the plaintext, and decrypting with any other
\* password fails with the invalid-password error.
C26_RoundTripWellFormed ==
  (/\ cipherRun.stage = "decrypted"
   /\ WellFormed(cipherRun.data)
   /\ WellFormed(cipherRun.password)
   /\ WellFormed(cipherRun.tried))
    => IF cipherRun.tried = cipherRun.password
       THEN cipherRun.outcome = Returned(cipherRun.data)
       ELSE cipherRun.outcome = InvalidPassword

\* A plaintext with characters of two and three bytes came back under a
\* password with a character of two bytes.
C26_Witness ==
  /\ cipherRun.stage = "decrypted"
  /\ cipherRun.data = <<233, 8364>>
  /\ cipherRun.password[8] = 233
  /\ cipherRun.tried = cipherRun.password
  /\ cipherRun.outcome = Returned(cipherRun.data)

----------------------------------------------------------------------------
(* Daemon: locking, transactions, start-up                                 *)

\* C27: the step in which the running daemon receives a lock_keystore request
\* over IPC leaves the keystore locked with no wallet in memory and the
\* session locked, so that a signing call is refused.
C27_LockAlwaysPossible ==
  [][ (/\ phase = "running"
       /\ nextId' = nextId + 1
       /\ lastValidation'.request.type = "lock_keystore"
       /\ lastValidation'.request.origin = "cli")
        => /\ keystore'.isLocked
           /\ keystore'.wallets = {}
           /\ ~sessionManager'.isUnlocked ]_vars

\* C28: an eth_sendTransaction request arriving over native messaging with its
\* transaction in params, while the state is UNLOCKED, a keystore exists and
\* the rate limit is not exhausted, passes validation and is suspended at the
\* transaction approval prompt.
C28_SendTransactionReachesApproval ==
  [][ (/\ phase = "running"
       /\ nextId' = nextId + 1
       /\ lastValidation'.request.type = "eth_sendTransaction"
       /\ lastValidation'.request.data = {"params"}
       /\ stateManager.currentState = UNLOCKED
       /\ hasKeystore(keystore)
       /\ _validateRateLimit(rateLimiter, now, lastValidation'.request).code = Passed)
        => /\ lastValidation'.code = Passed
           /\ \E p \in pending' : /\ p.id = nextId'
                                  /\ p.kind = "approval"
                                  /\ p.method = "eth_sendTransaction" ]_vars

\* start() runs to its end and the poll interval keeps firing.
SpecLive ==
  Spec /\ WF_vars(StartInit) /\ WF_vars(StartServe) /\ WF_vars(KeystorePoll)

\* A keystore file the watching daemon has not polled yet.
KeystoreCreated ==
  /\ watcher.isWatching
  /\ disk.mtime # watcher.lastModified
  /\ disk.content # EmptyDisk.content

\* C30: the step that completes start() leaves a state other than STARTING,
\* READY when no keystore was loaded and LOCKED when a locked one was; and a
\* keystore created while the running daemon is READY leads to LOCKED, unless
\* the daemon fails or exits, or the keystore is removed again, first.
C30_StateReflectsKeystore ==
  /\ [][ (phase = "initialized" /\ phase' = "running")
           => /\ stateManager'.currentState # STARTING
              /\ ~hasKeystore(keystore') => stateManager'.currentState = READY
              /\ (hasKeystore(keystore') /\ keystore'.isLocked)
                   => stateManager'.currentState = LOCKED ]_vars
  /\ (phase = "running" /\ stateManager.currentState = READY /\ KeystoreCreated)
       ~> (\/ stateManager.currentState \in {LOCKED, ERROR}
           \/ phase = "exited"
           \/ NoFiles(disk))

----------------------------------------------------------------------------
(* Keystore: persistence                                                   *)

Mutations == {"createNextAccount", "hideAccount", "showAccount", "setAccountLabel"}

\* The last call was a mutation that wrote the keystore.
Mutated(k) == k.lastCall.op \in Mutations /\ k.lastCall.result \in {"ok", "true"}

\* C29: a load of the keystore directory that follows a successful mutation,
\* in the same process or in a new one, reads the file the mutation wrote:
\* decrypted with the mutation's password it gives the accounts, visibility,
\* labels and nextAccountIndex the mutation left in memory.
C29_PersistenceRoundTrip ==
  [][ (Mutated(vault) /\ vault'.lastCall.op \in {"load", "constructor"})
        => /\ vault'.keystorePath = vault.written
           /\ vault'.encryptedData # Absent
           /\ decrypt(vault'.encryptedData, vault.lastCall.password)
                = vault.walletData ]_vars

----------------------------------------------------------------------------
(* DaemonStateManager: effect of a transition                              *)

\* The last n elements of a sequence.
LastN(seq, n) == SubSeq(seq, Len(seq) - n + 1, Len(seq))

\* C31: a successful transition makes previousState the old currentState,
\* appends the one entry (from, to) to the history and drops the oldest so
\* that at most HistoryLimit entries are kept, the last of them being
\* (previousState, currentState); the error counter becomes 0 when the new
\* state is not ERROR and grows by exactly one when it is.
C31_TransitionEffect ==
  [][ stateManager'.currentState # stateManager.currentState
        => LET pushed == Append(stateManager.stateHistory,
                                [from |-> stateManager.currentState,
                                 to   |-> stateManager'.currentState])
               kept   == IF Len(pushed) > HistoryLimit THEN HistoryLimit
                         ELSE Len(pushed)
           IN /\ stateManager'.previousState = stateManager.currentState
              /\ stateManager'.stateHistory = LastN(pushed, kept)
              /\ Len(stateManager'.stateHistory) <= HistoryLimit
              /\ stateManager'.stateHistory[Len(stateManager'.stateHistory)]
                   = [from |-> stateManager'.previousState,
                      to   |-> stateManager'.currentState]
              /\ stateManager'.errorCount =
                   IF stateManager'.currentState # ERROR THEN 0
                   ELSE stateManager.errorCount + 1 ]_vars

\* A full history that has lost its first entry (the first transition ever
\* leaves STARTING), after a transition into ERROR and one out of it.
C31_Witness ==
  /\ Len(stateManager.stateHistory) = HistoryLimit
  /\ stateManager.stateHistory[1].from = LOCKED
  /\ stateManager.stateHistory[HistoryLimit - 1].to = ERROR
  /\ stateManager.previousState = ERROR
  /\ stateManager.currentState = READY
  /\ stateManager.errorCount = 0

----------------------------------------------------------------------------
(* ValidationPipeline: the keystore check and the rate limiter's records   *)

\* The request types the specification names as requiring a keystore.
KeystoreTypes ==
  {"unlock_keystore", "get_accounts", "sign_transaction", "sign_message",
   "personal_sign", "eth_accounts", "eth_sendTransaction", "eth_sign",
   "eth_requestAccounts"}

\* C32: with no keystore and the daemon READY, validate() rejects every request
\* of a keystore-requiring type with no_keystore, and no request of another
\* type is rejected with no_keystore.
C32_KeystoreCheck ==
  (/\ lastValidation.code # "none"
   /\ lastValidation.state = READY
   /\ ~hasKeystore(keystore))
    => IF lastValidation.request.type \in KeystoreTypes
       THEN lastValidation.code = NO_KEYSTORE
       ELSE lastValidation.code # NO_KEYSTORE

----------------------------------------------------------------------------
(* Daemon: unlocking over IPC, locking during approval, keystore presence  *)

\* p is the daemon's latest request, an unlock_keystore over IPC that passed
\* validation in state LOCKED, and this step ends its key derivation.
UnlockCompletes(p) ==
  /\ phase = "running"
  /\ p \in pending
  /\ p \notin pending'
  /\ p.kind = "derive"
  /\ p.transport = "ipc"
  /\ p.id = nextId
  /\ lastValidation.request.type = "unlock_keystore"
  /\ lastValidation.state = LOCKED
  /\ lastValidation.code = Passed

\* C33: an unlock_keystore request received over IPC in state LOCKED ends, with
\* the right password, with the keystore unlocked, the session unlocked with
\* the keystore's accounts, the daemon UNLOCKED and the one response
\* unlock_response{success: true} under the request's id; with a wrong
\* password it ends with unlock_response{success: false} under the request's
\* id and keystore, session and daemon state as they were.
C33_UnlockOverIPC ==
  [][ \A p \in pending :
        UnlockCompletes(p)
          => IF p.arg = "good"
             THEN /\ ~keystore'.isLocked
                  /\ sessionManager'.isUnlocked
                  /\ sessionManager'.accounts = getAccounts(keystore')
                  /\ stateManager'.currentState = UNLOCKED
                  /\ lastResponse' = [id |-> p.id, transport |-> "ipc",
                                      kind |-> "unlock_response", code |-> "ok"]
             ELSE /\ lastResponse' = [id |-> p.id, transport |-> "ipc",
                                      kind |-> "unlock_response",
                                      code |-> "invalid_password"]
                  /\ keystore' = keystore
                  /\ sessionManager' = sessionManager
                  /\ stateManager' = stateManager ]_vars

C35_LockedHasKeystore ==
  stateManager.currentState \in {LOCKED, UNLOCKED} => hasKeystore(keystore)

\* The request this step validated arrived over native messaging: it is
\* answered on, or suspended for, that transport.
NativeRequestHandled ==
  /\ nextId' = nextId + 1
  /\ \/ lastResponse'.id = nextId' /\ lastResponse'.transport = "native"
     \/ \E p \in pending' : p.id = nextId' /\ p.transport = "native"

\* C36: a request arriving over native messaging is never validated with origin
\* 'cli', and its rate-limit bucket is the only one of its type that native
\* requests have filled (IPC requests fill only 'cli' buckets).
C36_OriginFixedByTransport ==
  [][ NativeRequestHandled
        => /\ lastValidation'.request.origin # "cli"
           /\ \A key \in DOMAIN rateLimiter' :
                (key[2] = lastValidation'.request.type /\ key[1] # "cli")
                  => key = RateKey(lastValidation'.request) ]_vars

\* The timestamps the rate limiter holds under a key.
Timestamps(rl, key) == IF key \in DOMAIN rl THEN rl[key] ELSE << >>

\* Checks 1 to 5 of the pipeline accept the request in the current state.
PassesChecks1to5(request) ==
  /\ _validateDaemonState(stateManager, request) = Passed
  /\ _validateKeystore(keystore, request) = Passed
  /\ _validateSession(stateManager, request) = Passed
  /\ _validatePermissions(permissionManager, request) = Passed
  /\ _validateRateLimit(rateLimiter, now, request).code = Passed

\* C37: a validate() call appends the time of the request to the list of the
\* request's own (origin, type) key exactly when checks 1 to 5 accept it,
\* whatever the schema check then says; otherwise that list keeps its
\* timestamps; the lists of all other keys are never changed.
C37_QuotaRecords ==
  [][ <<lastValidation, rateLimiter>>' # <<lastValidation, rateLimiter>>
        => LET request == lastValidation'.request
               key     == RateKey(request)
           IN /\ Timestamps(rateLimiter', key) =
                   IF PassesChecks1to5(request)
                   THEN Append(SeqFilter(Timestamps(rateLimiter, key), now, WindowMs),
                               now)
                   ELSE Timestamps(rateLimiter, key)
              /\ \A other \in (DOMAIN rateLimiter \cup DOMAIN rateLimiter') \ {key} :
                   Timestamps(rateLimiter', other) = Timestamps(rateLimiter, other) ]_vars

\* A request rejected by the schema check has its timestamp recorded, next to
\* the list of another key that holds the times of two earlier requests.
C37_Witness ==
  /\ lastValidation.code = INVALID_REQUEST
  /\ Len(lastValidation.checks) = Len(validations)
  /\ Len(Timestamps(rateLimiter, RateKey(lastValidation.request))) = 1
  /\ \E other \in DOMAIN rateLimiter :
       /\ other # RateKey(lastValidation.request)
       /\ Len(rateLimiter[other]) = 2
  /\ nextId = 3

\* This step is a mutation whose write of the keystore file failed.
WriteFailed ==
  /\ vault'.faults # vault.faults
  /\ vault'.lastCall.op \in Mutations
  /\ vault'.lastCall.result \in FsOutcomes \ {"ok"}

\* C38: a mutation whose write of the keystore file fails leaves the wallet
\* payload in memory (accounts, nextAccountIndex, visibility, labels) and the
\* account map as they were before the call.
C38_MutationAtomicity ==
  [][ WriteFailed => /\ vault'.walletData = vault.walletData
                     /\ vault'.wallets = vault.wallets ]_vars

PersistingOperations == {"createWallet", "importWallet"} \cup Mutations

\* The file the most recent successful persisting operation wrote, when that
\* is the file this Keystore holds: no load() has taken another file since
\* and deleteKeystore() has not removed it.
LatestFile(k) == {f \in k.dir : f.name = k.written /\ f.name = k.keystorePath}

C40_RemovalDetected ==
  [][ (/\ phase = "running"
       /\ watcher'.lastModified # watcher.lastModified
       /\ NoFiles(disk)
       /\ hasKeystore(keystore)
       /\ stateManager.currentState \in {LOCKED, UNLOCKED})
        => /\ ~hasKeystore(keystore')
           /\ stateManager'.currentState = READY ]_vars

====
